---- MODULE Spec2Model ----
(***************************************************************************)
(* Cache consistency subsystem of the RSVP backend: the Redis lock, the    *)
(* atomic counter, the page cache, the per-user cache, the write path      *)
(* (PostgreSQL commit, then Kafka publish) and the cache consumer.         *)
(* Every Redis command, SQL statement and Kafka call is one atomic step;   *)
(* an async function is a process whose pc names the await it stands at.   *)
(***************************************************************************)
EXTENDS Integers, Sequences, FiniteSets, TLC

\* ---------------------------------------------------------------- bounds
NumProcs == 2
MaxWrites == 2
MaxRedeliver == 1
MaxCommits == 3
MaxScanPage == 2
MaxScanLimit == 2
MaxCalls == 3

\* ------------------------------------------------------ program constants
MAX_RETRY_ATTEMPTS == 3
DEFAULT_PAGE_SIZE == 20

Procs == 1..NumProcs
Emails == {"a@x", "b@x"}
Names == {"ann"}

\* (page, limit) pairs the read path asks for in this model
PageKeys == {<<1, DEFAULT_PAGE_SIZE>>, <<2, 1>>}

VARIABLES
  db,          \* rsvps table: sequence of rows in insertion (id) order
  nextId,      \* next SERIAL id
  outbox,      \* events of committed mutations whose publish has not run yet
  log,         \* the rsvp-events topic: sequence of events
  offset,      \* number of messages the cache consumer has acknowledged
  redelivered, \* number of redeliveries the transport has made
  cpc,         \* cache consumer: position inside eachMessage / the handler
  cev,         \* cache consumer: the event being applied
  cnum,        \* cache consumer: newCount inside decrementCount
  lock,        \* Redis lock keys: "none" | "set" (no expiry) | "ttl"
  pageCache,   \* Redis page keys: [present, data]
  counter,     \* Redis rsvps:count: [present, value, ttl]
  userCache,   \* Redis rsvps:user:<email>: [present, rec]
  pc,          \* per process: the await it stands at
  loc,         \* per process: the locals of the call it runs
  fetchCalls,  \* per page key: number of fetchFunction invocations
  countFetches,\* number of count fetchFunction invocations
  holder,      \* per lock key: the processes whose acquireLock returned true
               \*   on the entry now in the store
  writes,      \* number of committed mutations
  failed,      \* offsets of messages whose handler threw
  hist,        \* per offset: completed applications, and the counter and page 1
               \*   as they stood when the first application began
  fresh,       \* per page key: the event whose application was the last to
               \*   complete with no read of that key begun since
  wpc,         \* per process: the await a write handler stands at
  wloc,        \* per process: the locals of the write handler it runs
  redisUp,     \* FALSE while the calls to the Redis client reject
  written,     \* per page key: whether setCachedPage ever stored an entry, and
               \*   the argument of the setCachedPage whose entry is in the store
  scan,        \* a client reading two consecutive pages from the table
  resp,        \* the response getAllRSVPs last sent
  san,         \* the last call of a sanitizer: its name, argument and result
  calls        \* the incrementCount and decrementCount calls made so far

vars == <<db, nextId, outbox, log, offset, redelivered, cpc, cev, cnum, lock,
          pageCache, counter, userCache, pc, loc, fetchCalls, countFetches,
          holder, writes, failed, hist, fresh, wpc, wloc, redisUp, written, scan,
          resp, san, calls>>

dbVars == <<db, nextId, outbox, writes>>
logVars == <<log, offset, redelivered, failed>>
consVars == <<cpc, cev, cnum, hist>>
procVars == <<pc, loc>>
lockVars == <<lock, holder>>
cacheVars == <<pageCache, counter, userCache>>
callVars == <<fetchCalls, countFetches>>
pureVars == <<resp, san, calls>>
extVars == <<wpc, wloc, redisUp, scan, pureVars>>

\* ------------------------------------------------------------- data model

\* created_at is a Date in a row and an ISO string once serialized
Date(n) == <<"Date", n>>
Iso(n) == <<"iso", n>>

\* JSON.stringify followed by JSON.parse of one row: a Date becomes its ISO string
JsonRoundTrip(r) ==
  [f \in DOMAIN r |->
     IF f = "created_at" /\ r[f][1] = "Date" THEN Iso(r[f][2]) ELSE r[f]]

\* mutant: the item is stored with all its fields
Whitelist_All(r) == r

\* const { id, name, email, created_at } = item
Whitelist(r) == [f \in (DOMAIN r) \cap {"id", "name", "email", "created_at"} |-> r[f]]

\* sanitizeData on an array of rows
sanitizeData(rows) == [i \in 1..Len(rows) |-> Whitelist(rows[i])]

\* email.toLowerCase().trim()
NormalizeEmail(e) ==
  CASE e = "A@x " -> "a@x"
    [] e = "B@x"  -> "b@x"
    [] OTHER      -> e

getUserRSVPCacheKey(email) == NormalizeEmail(email)
getPageCacheKey(page, limit) == <<page, limit>>
getPageLockKey(page, limit) == <<page, limit>>
getCountLockKey == <<0, 0>>
LockKeys == PageKeys \cup {getCountLockKey}

Reverse(s) == [i \in 1..Len(s) |-> s[Len(s) + 1 - i]]

Min(a, b) == IF a < b THEN a ELSE b

\* mutant: ORDER BY created_at ASC
OrderNewestFirst_Ascending(rows) == rows

\* rows in id order are in created_at order: created_at DESC, id DESC is the reverse
OrderNewestFirst(rows) == Reverse(rows)

\* SELECT id, name, email, created_at FROM rsvps
\*   ORDER BY created_at DESC, id DESC LIMIT limit OFFSET (page - 1) * limit
fetchPage(rows, page, limit) ==
  LET ordered == OrderNewestFirst(rows)
      off == (page - 1) * limit
  IN  IF off >= Len(ordered) THEN <<>>
      ELSE sanitizeData(SubSeq(ordered, off + 1, Min(Len(ordered), off + limit)))

\* SELECT COUNT(*) FROM rsvps
CountAll(rows) == Len(rows)

NoPage == [present |-> FALSE, data |-> <<>>]
NoCounter == [present |-> FALSE, value |-> 0, ttl |-> FALSE]
NoRec == [id |-> 0, name |-> "", email |-> "", created_at |-> Iso(0)]
NoUser == [present |-> FALSE, rec |-> NoRec]
NoEvent == [type |-> "none", rsvpId |-> 0, email |-> "", oldEmail |-> "",
            name |-> "", createdAt |-> Iso(0), seq |-> 0]

NoLoc == [op |-> "none", key |-> <<0, 0>>, attempt |-> 0, data |-> <<>>, num |-> 0,
          missed |-> FALSE, fetched |-> FALSE, at |-> 0, ev |-> NoEvent, w0 |-> 0,
          kind |-> "none", val |-> <<>>, down |-> FALSE, won |-> FALSE, rel |-> 0]
NoHist == [n |-> 0, before |-> NoCounter, paged |-> FALSE]
NoWritten == [ever |-> FALSE, live |-> FALSE, rows |-> <<>>]
\* the record of a key after setCachedPage(rows) stored an entry, and after the
\* entry left the store (expiry or DEL)
Stored(rows) == [ever |-> TRUE, live |-> TRUE, rows |-> rows]
Gone(w) == [w EXCEPT !.live = FALSE, !.rows = <<>>]
NoWrite == [op |-> "none", id |-> 0, email |-> "", name |-> "", found |-> "",
            ev |-> NoEvent, committed |-> FALSE, pubFailed |-> FALSE, status |-> 0]
NoResp == [status |-> 0, page |-> 0, limit |-> 0, total |-> 0, totalPages |-> 0,
           hasNext |-> FALSE, hasPrev |-> FALSE]
NoSan == [fn |-> "none", input |-> <<>>, output |-> <<>>]
NoCalls == [incr |-> 0, decr |-> 0]
NoScan == [step |-> 0, page |-> 0, limit |-> 0, before |-> <<>>, after |-> <<>>,
           first |-> <<>>, second |-> <<>>]

\* ------------------------------------------------------- Redis lock (50-69)

\* mutant: a plain SET where SETNX was meant: every caller is told it won
SetNXResult_Blind(entry) == TRUE

\* redisClient.setNX(key, '1'): TRUE exactly when the key did not exist
SetNXResult(entry) == entry = "none"

\* the key after setNX: created without expiry when absent, untouched otherwise
SetNXStore(entry) == IF entry = "none" THEN "set" ELSE entry

\* redisClient.expire(key, ttl)
ExpireStore(entry) == IF entry = "none" THEN "none" ELSE "ttl"

\* ------------------------------------------------ page cache (71-99)

\* getCachedPage: JSON.parse, then sanitizeData; null on a miss
getCachedPage(cache, k) == IF cache[k].present THEN sanitizeData(cache[k].data) ELSE <<>>
pageHit(cache, k) == cache[k].present

\* setCachedPage: sanitizeData, JSON.stringify, SETEX with ATTENDEE_PAGE_TTL
PageEntry(rows) ==
  [present |-> TRUE,
   data |-> [i \in 1..Len(rows) |-> JsonRoundTrip(sanitizeData(rows)[i])]]

\* --------------------------------------------- atomic counter (101-156)

\* the reply of getAtomicCount: count ? parseInt(count, 10) : null
getAtomicCount(c) == [null |-> ~c.present, n |-> IF c.present THEN c.value ELSE 0]

\* redisClient.incr(countKey): a missing key counts as 0 and is made without expiry
IncrStore(c) ==
  IF c.present THEN [c EXCEPT !.value = @ + 1]
  ELSE [present |-> TRUE, value |-> 1, ttl |-> FALSE]

\* redisClient.decr(countKey)
DecrStore(c) ==
  IF c.present THEN [c EXCEPT !.value = @ - 1]
  ELSE [present |-> TRUE, value |-> -1, ttl |-> FALSE]

\* redisClient.expire(countKey, COUNT_TTL)
ExpireCount(c) == IF c.present THEN [c EXCEPT !.ttl = TRUE] ELSE c

\* redisClient.set(countKey, '0'): a plain SET, which drops the key's expiry
ClampStore(c) == [present |-> TRUE, value |-> 0, ttl |-> FALSE]

\* mutant: the count is written only when the key is missing (SET ... NX)
setAtomicCount_IfAbsent(n) ==
  IF counter.present THEN counter ELSE [present |-> TRUE, value |-> n, ttl |-> TRUE]

\* setAtomicCount: redisClient.setEx(countKey, COUNT_TTL, count.toString())
setAtomicCount(n) == [present |-> TRUE, value |-> n, ttl |-> TRUE]

\* cached !== null && cached > 0
CountHit(r) == ~r.null /\ r.n > 0

\* ------------------------------------------------------------------ Init

Quiescent ==
  /\ outbox = {}
  /\ log = <<>>
  /\ offset = 0
  /\ redelivered = 0
  /\ cpc = "idle"
  /\ cev = NoEvent
  /\ cnum = 0
  /\ lock = [k \in LockKeys |-> "none"]
  /\ pageCache = [k \in PageKeys |-> NoPage]
  /\ counter = NoCounter
  /\ userCache = [e \in Emails |-> NoUser]
  /\ pc = [p \in Procs |-> "idle"]
  /\ loc = [p \in Procs |-> NoLoc]
  /\ fetchCalls = [k \in PageKeys |-> 0]
  /\ countFetches = 0
  /\ holder = [k \in LockKeys |-> {}]
  /\ writes = 0
  /\ failed = {}
  /\ hist = [i \in 1..MaxWrites |-> NoHist]
  /\ fresh = [k \in PageKeys |-> NoEvent]
  /\ wpc = [p \in Procs |-> "idle"]
  /\ wloc = [p \in Procs |-> NoWrite]
  /\ redisUp = TRUE
  /\ written = [k \in PageKeys |-> NoWritten]
  /\ scan = NoScan
  /\ resp = NoResp
  /\ san = NoSan
  /\ calls = NoCalls

\* the service after start-up: an empty table, nothing cached, nothing published
Init ==
  /\ db = <<>>
  /\ nextId = 1
  /\ Quiescent

\* a row as INSERT ... RETURNING makes it; token never leaves the table
Row(id, name, email) ==
  [id |-> id, name |-> name, email |-> email, token |-> "jwt", created_at |-> Date(id)]

\* a table that earlier requests have filled, nothing cached yet
InitLoaded ==
  /\ db \in {<<>>, <<Row(1, "ann", "a@x")>>,
             <<Row(1, "ann", "a@x"), Row(2, "ann", "b@x")>>}
  /\ nextId = Len(db) + 1
  /\ Quiescent

\* ------------------------------------- getCachedPageWithLock (209-260)

Return(p, v) == [loc[p] EXCEPT !.kind = "value", !.val = v]
ReturnCount(p, n) == [loc[p] EXCEPT !.kind = "value", !.num = n]
Throw(p) == [loc[p] EXCEPT !.kind = "error"]

\* the call has returned or thrown: its locals are gone, its outcome stays
Forget(l) == [l EXCEPT !.attempt = 0, !.data = <<>>, !.at = 0]

\* a request enters getCachedPageWithLock(page, limit, fetchPage): attempt = 0
PL_Start(p, k) ==
  /\ pc[p] = "idle"
  /\ pc' = [pc EXCEPT ![p] = "pl_check"]
  /\ loc' = [loc EXCEPT ![p] = [NoLoc EXCEPT !.op = "page", !.key = k,
                                             !.ev = fresh[k], !.w0 = writes]]
  /\ fresh' = [fresh EXCEPT ![k] = NoEvent]
  /\ UNCHANGED <<dbVars, logVars, consVars, lockVars, cacheVars, callVars>>
  /\ UNCHANGED <<extVars, written>>

\* 218-221: cached = await getCachedPage(page, limit); if (cached) return cached
PL_Check(p) ==
  /\ pc[p] = "pl_check"
  /\ IF pageHit(pageCache, loc[p].key)
       THEN /\ pc' = [pc EXCEPT ![p] = "done"]
            /\ loc' = [loc EXCEPT ![p] =
                         Forget(Return(p, getCachedPage(pageCache, loc[p].key)))]
       ELSE /\ pc' = [pc EXCEPT ![p] = "pl_setnx"]
            /\ loc' = [loc EXCEPT ![p].missed = TRUE]
  /\ UNCHANGED <<dbVars, logVars, consVars, lockVars, cacheVars, callVars, fresh>>
  /\ UNCHANGED <<extVars, written>>

\* mutant: a refused attempt is not counted
NextAttempt_Stuck(attempt) == attempt

\* 225: attempt++
NextAttempt(attempt) == attempt + 1

\* 223 / 52: setNX inside acquireLock; on false 224-229: attempt++, wait, continue
PL_SetNX(p) ==
  /\ pc[p] = "pl_setnx"
  /\ LET k == getPageLockKey(loc[p].key[1], loc[p].key[2])
         won == SetNXResult(lock[k])
     IN  /\ lock' = [lock EXCEPT ![k] = SetNXStore(@)]
         /\ IF won
              THEN /\ pc' = [pc EXCEPT ![p] = "pl_expire"]
                   /\ holder' = [holder EXCEPT ![k] = @ \cup {p}]
                   /\ loc' = loc
              ELSE /\ holder' = holder
                   /\ loc' = [loc EXCEPT ![p].attempt = NextAttempt(@)]
                   /\ pc' = [pc EXCEPT ![p] =
                               IF NextAttempt(loc[p].attempt) < MAX_RETRY_ATTEMPTS
                                 THEN "pl_check" ELSE "pl_stale"]
  /\ UNCHANGED <<dbVars, logVars, consVars, cacheVars, callVars, fresh>>
  /\ UNCHANGED <<extVars, written>>

\* 54-56: await redisClient.expire(key, ttl); acquireLock returns true (won)
PL_Expire(p) ==
  /\ pc[p] = "pl_expire"
  /\ lock' = [lock EXCEPT ![getPageLockKey(loc[p].key[1], loc[p].key[2])] = ExpireStore(@)]
  /\ pc' = [pc EXCEPT ![p] = "pl_dbl"]
  /\ loc' = [loc EXCEPT ![p].won = TRUE]
  /\ UNCHANGED <<dbVars, logVars, consVars, cacheVars, callVars, holder, fresh>>
  /\ UNCHANGED <<extVars, written>>

\* 231-236: the last attempt failed: staleData or throw
PL_Stale(p) ==
  /\ pc[p] = "pl_stale"
  /\ pc' = [pc EXCEPT ![p] = "done"]
  /\ loc' = [loc EXCEPT ![p] =
               IF pageHit(pageCache, loc[p].key)
                 THEN Forget(Return(p, getCachedPage(pageCache, loc[p].key)))
                 ELSE Forget(Throw(p))]
  /\ UNCHANGED <<dbVars, logVars, consVars, lockVars, cacheVars, callVars, fresh>>
  /\ UNCHANGED <<extVars, written>>

\* 240-243: doubleCheck under the lock
PL_DoubleCheck(p) ==
  /\ pc[p] = "pl_dbl"
  /\ IF pageHit(pageCache, loc[p].key)
       THEN /\ pc' = [pc EXCEPT ![p] = "pl_release"]
            /\ loc' = [loc EXCEPT ![p] = Return(p, getCachedPage(pageCache, loc[p].key))]
       ELSE /\ pc' = [pc EXCEPT ![p] = "pl_fetch"]
            /\ loc' = loc
  /\ UNCHANGED <<dbVars, logVars, consVars, lockVars, cacheVars, callVars, fresh>>
  /\ UNCHANGED <<extVars, written>>

\* 245: data = await fetchFunction()  (controller 92-98)
PL_Fetch(p) ==
  /\ pc[p] = "pl_fetch"
  /\ loc' = [loc EXCEPT ![p].data = fetchPage(db, loc[p].key[1], loc[p].key[2]),
                        ![p].at = writes, ![p].fetched = TRUE]
  /\ fetchCalls' = [fetchCalls EXCEPT ![loc[p].key] = @ + 1]
  /\ pc' = [pc EXCEPT ![p] = "pl_set"]
  /\ UNCHANGED <<dbVars, logVars, consVars, lockVars, cacheVars, countFetches, fresh>>
  /\ UNCHANGED <<extVars, written>>

\* 246-247: await setCachedPage(page, limit, data); return data
PL_SetPage(p) ==
  /\ pc[p] = "pl_set"
  /\ pageCache' = [pageCache EXCEPT ![getPageCacheKey(loc[p].key[1], loc[p].key[2])] =
                     PageEntry(loc[p].data)]
  /\ loc' = [loc EXCEPT ![p] = Return(p, loc[p].data)]
  /\ pc' = [pc EXCEPT ![p] = "pl_release"]
  /\ written' = [written EXCEPT ![getPageCacheKey(loc[p].key[1], loc[p].key[2])] =
                    Stored(loc[p].data)]
  /\ UNCHANGED <<dbVars, logVars, consVars, lockVars, counter, userCache, callVars, fresh>>
  /\ UNCHANGED extVars

\* 254-256 / 63-69: finally releaseLock(lockKey): DEL of the key, whoever made
\* it; rel counts the releaseLock calls of the request
PL_Release(p) ==
  /\ pc[p] = "pl_release"
  /\ LET k == getPageLockKey(loc[p].key[1], loc[p].key[2])
     IN  /\ lock' = [lock EXCEPT ![k] = "none"]
         /\ holder' = [holder EXCEPT ![k] = {}]
  /\ pc' = [pc EXCEPT ![p] = "done"]
  /\ loc' = [loc EXCEPT ![p] = [Forget(@) EXCEPT !.rel = @ + 1]]
  /\ UNCHANGED <<dbVars, logVars, consVars, cacheVars, callVars, fresh>>
  /\ UNCHANGED <<extVars, written>>

PageReader(p) ==
  \/ PL_Check(p)
  \/ PL_SetNX(p)
  \/ PL_Expire(p)
  \/ PL_DoubleCheck(p)
  \/ PL_Fetch(p)
  \/ PL_SetPage(p)
  \/ PL_Release(p)

\* ------------------------------------ getCachedCountWithLock (262-293)

\* a request enters getCachedCountWithLock(fetchCount)
CL_Start(p) ==
  /\ pc[p] = "idle"
  /\ pc' = [pc EXCEPT ![p] = "cl_get"]
  /\ loc' = [loc EXCEPT ![p] = [NoLoc EXCEPT !.op = "count", !.key = getCountLockKey,
                                             !.missed = FALSE]]
  /\ UNCHANGED <<dbVars, logVars, consVars, lockVars, cacheVars, callVars, fresh>>
  /\ UNCHANGED <<extVars, written>>

\* 265-268: cached = await getAtomicCount(); returned when non-null and > 0
CL_Get(p) ==
  /\ pc[p] = "cl_get"
  /\ LET r == getAtomicCount(counter)
     IN  IF CountHit(r)
           THEN /\ pc' = [pc EXCEPT ![p] = "done"]
                /\ loc' = [loc EXCEPT ![p] = Forget(ReturnCount(p, r.n))]
           ELSE /\ pc' = [pc EXCEPT ![p] = "cl_setnx"]
                /\ loc' = [loc EXCEPT ![p].num = r.n, ![p].missed = TRUE]
  /\ UNCHANGED <<dbVars, logVars, consVars, lockVars, cacheVars, callVars, fresh>>
  /\ UNCHANGED <<extVars, written>>

\* 271 / 52: setNX inside acquireLock(lockKey, 5); no retry when it is refused
CL_SetNX(p) ==
  /\ pc[p] = "cl_setnx"
  /\ LET k == getCountLockKey
         won == SetNXResult(lock[k])
     IN  /\ lock' = [lock EXCEPT ![k] = SetNXStore(@)]
         /\ holder' = [holder EXCEPT ![k] = IF won THEN @ \cup {p} ELSE @]
         /\ pc' = [pc EXCEPT ![p] = IF won THEN "cl_expire" ELSE "cl_stale"]
  /\ UNCHANGED <<dbVars, logVars, consVars, cacheVars, callVars, loc, fresh>>
  /\ UNCHANGED <<extVars, written>>

\* 54: await redisClient.expire(key, 5)
CL_Expire(p) ==
  /\ pc[p] = "cl_expire"
  /\ lock' = [lock EXCEPT ![getCountLockKey] = ExpireStore(@)]
  /\ pc' = [pc EXCEPT ![p] = "cl_dbl"]
  /\ loc' = [loc EXCEPT ![p].won = TRUE]
  /\ UNCHANGED <<dbVars, logVars, consVars, cacheVars, callVars, holder, fresh>>
  /\ UNCHANGED <<extVars, written>>

\* 273-279: staleCount, or throw 'Failed to acquire count lock'
CL_Stale(p) ==
  /\ pc[p] = "cl_stale"
  /\ pc' = [pc EXCEPT ![p] = "done"]
  /\ LET r == getAtomicCount(counter)
     IN  loc' = [loc EXCEPT ![p] =
                   IF CountHit(r) THEN Forget(ReturnCount(p, r.n))
                   ELSE Forget([Throw(p) EXCEPT !.num = r.n])]
  /\ UNCHANGED <<dbVars, logVars, consVars, lockVars, cacheVars, callVars, fresh>>
  /\ UNCHANGED <<extVars, written>>

\* 282-285: doubleCheck under the lock
CL_DoubleCheck(p) ==
  /\ pc[p] = "cl_dbl"
  /\ LET r == getAtomicCount(counter)
     IN  IF CountHit(r)
           THEN /\ pc' = [pc EXCEPT ![p] = "cl_release"]
                /\ loc' = [loc EXCEPT ![p] = ReturnCount(p, r.n)]
           ELSE /\ pc' = [pc EXCEPT ![p] = "cl_query"]
                /\ loc' = [loc EXCEPT ![p].num = r.n]
  /\ UNCHANGED <<dbVars, logVars, consVars, lockVars, cacheVars, callVars, fresh>>
  /\ UNCHANGED <<extVars, written>>

\* 287 -> controller 86-87: SELECT COUNT(*) and parseInt
CL_Query(p) ==
  /\ pc[p] = "cl_query"
  /\ loc' = [loc EXCEPT ![p].num = CountAll(db), ![p].at = writes,
                        ![p].fetched = TRUE]
  /\ countFetches' = countFetches + 1
  /\ pc' = [pc EXCEPT ![p] = "cl_sync"]
  /\ UNCHANGED <<dbVars, logVars, consVars, lockVars, cacheVars, fetchCalls, fresh>>
  /\ UNCHANGED <<extVars, written>>

\* controller 88 -> 295-302: syncCountFromDB(async () => dbCount)
CL_Sync(p) ==
  /\ pc[p] = "cl_sync"
  /\ counter' = setAtomicCount(loc[p].num)
  /\ pc' = [pc EXCEPT ![p] = "cl_set"]
  /\ UNCHANGED <<dbVars, logVars, consVars, lockVars, pageCache, userCache, callVars,
                 loc, fresh>>
  /\ UNCHANGED <<extVars, written>>

\* 288-289: await setAtomicCount(count); return count
CL_Set(p) ==
  /\ pc[p] = "cl_set"
  /\ counter' = setAtomicCount(loc[p].num)
  /\ loc' = [loc EXCEPT ![p] = ReturnCount(p, loc[p].num)]
  /\ pc' = [pc EXCEPT ![p] = "cl_release"]
  /\ UNCHANGED <<dbVars, logVars, consVars, lockVars, pageCache, userCache, callVars,
                 fresh>>
  /\ UNCHANGED <<extVars, written>>

\* 290-292: finally releaseLock(lockKey)
CL_Release(p) ==
  /\ pc[p] = "cl_release"
  /\ lock' = [lock EXCEPT ![getCountLockKey] = "none"]
  /\ holder' = [holder EXCEPT ![getCountLockKey] = {}]
  /\ pc' = [pc EXCEPT ![p] = "done"]
  /\ loc' = [loc EXCEPT ![p] = [Forget(@) EXCEPT !.rel = @ + 1]]
  /\ UNCHANGED <<dbVars, logVars, consVars, cacheVars, callVars, fresh>>
  /\ UNCHANGED <<extVars, written>>

CountReader(p) ==
  \/ CL_Get(p)
  \/ CL_SetNX(p)
  \/ CL_Expire(p)
  \/ CL_DoubleCheck(p)
  \/ CL_Query(p)
  \/ CL_Sync(p)
  \/ CL_Set(p)
  \/ CL_Release(p)

\* ------------------------------------------ write path (controller 17-362)

Undefined == <<"undefined", 0>>
Now == <<"now", 0>>

Remove(s, i) == SubSeq(s, 1, i - 1) \o SubSeq(s, i + 1, Len(s))

\* mutant: the email column without its UNIQUE constraint
EmailTaken_Never(rows, email, except) == FALSE

\* init-db 11: email VARCHAR(255) NOT NULL UNIQUE: some other row holds the email
EmailTaken(rows, email, except) ==
  \E j \in 1..Len(rows) : j # except /\ rows[j].email = email

\* createRSVP 43-46: INSERT ... RETURNING; a taken email raises 23505 (409)
Create(email, name) ==
  /\ writes < MaxWrites
  /\ ~EmailTaken(db, email, 0)
  /\ db' = Append(db, Row(nextId, name, email))
  /\ nextId' = nextId + 1
  /\ writes' = writes + 1
  /\ outbox' = outbox \cup
       {[type |-> "created", rsvpId |-> nextId, email |-> email, oldEmail |-> "",
         name |-> name, createdAt |-> Iso(nextId), seq |-> writes + 1]}
  /\ UNCHANGED <<logVars, consVars, lockVars, cacheVars, procVars, callVars, fresh>>
  /\ UNCHANGED <<extVars, written>>

\* updateRSVP 182-198: UPDATE of the caller's own row; "" stands for a field
\* the request left out
Update(i, email, name) ==
  /\ writes < MaxWrites
  /\ i \in 1..Len(db)
  /\ email # "" \/ name # ""
  /\ email # "" => ~EmailTaken(db, email, i)
  /\ db' = [db EXCEPT ![i].email = IF email # "" THEN email ELSE @,
                      ![i].name = IF name # "" THEN name ELSE @]
  /\ writes' = writes + 1
  /\ outbox' = outbox \cup
       {[type |-> "updated", rsvpId |-> db[i].id,
         email |-> IF email # "" THEN email ELSE db[i].email,
         oldEmail |-> IF email # "" THEN db[i].email ELSE "",
         name |-> name, createdAt |-> Undefined, seq |-> writes + 1]}
  /\ UNCHANGED <<nextId, logVars, consVars, lockVars, cacheVars, procVars, callVars,
                 fresh>>
  /\ UNCHANGED <<extVars, written>>

\* deleteRSVP 238-254 (deleted) and deleteRSVPByToken 344-355 (cancelled)
Delete(i, type) ==
  /\ writes < MaxWrites
  /\ i \in 1..Len(db)
  /\ db' = Remove(db, i)
  /\ writes' = writes + 1
  /\ outbox' = outbox \cup
       {[type |-> type, rsvpId |-> db[i].id, email |-> db[i].email, oldEmail |-> "",
         name |-> "", createdAt |-> Undefined, seq |-> writes + 1]}
  /\ UNCHANGED <<nextId, logVars, consVars, lockVars, cacheVars, procVars, callVars,
                 fresh>>
  /\ UNCHANGED <<extVars, written>>

\* eventProducer.publish: kafkaProducer.send to rsvp-events
Publish(e) ==
  /\ e \in outbox
  /\ outbox' = outbox \ {e}
  /\ log' = Append(log, e)
  /\ UNCHANGED <<db, nextId, writes, offset, redelivered, failed, consVars, lockVars,
                 cacheVars, procVars, callVars, fresh>>
  /\ UNCHANGED <<extVars, written>>

\* ------------------------------------------- CacheConsumer (121-261)

\* invalidateAllPageCaches(): every page key is deleted
invalidateAllPageCaches(cache) == [k \in DOMAIN cache |-> NoPage]

\* mutant: the counter key is left in place
invalidateCount_Keeps(c) == c

\* invalidateCount(): DEL rsvps:count
invalidateCount(c) == NoCounter

\* mutant: the user key is left in place
invalidateUserRSVP_Noop(cache, email) == cache

\* invalidateUserRSVP(email): DEL rsvps:user:<normalized email>
invalidateUserRSVP(cache, email) ==
  [cache EXCEPT ![getUserRSVPCacheKey(email)] = NoUser]

\* setUserRSVP(email, rsvpData): SETEX of JSON.stringify(rsvpData)
setUserRSVP(cache, email, rec) ==
  [cache EXCEPT ![getUserRSVPCacheKey(email)] = [present |-> TRUE, rec |-> rec]]

\* getUserRSVP(email): the parsed entry, null when the key is missing
getUserRSVP(cache, email) == cache[getUserRSVPCacheKey(email)]

\* handleEvent 166-181: the handler's first step for each event type
FirstStep(type) ==
  CASE type = "created" -> "incr"
    [] type = "updated" -> "inval_count"
    [] OTHER            -> "decr"

\* the step after invalidateAllPageCaches in each handler
AfterPages(type) ==
  CASE type = "created" -> "set_user"
    [] type = "updated" -> "inval_old"
    [] OTHER            -> "inval_user"

\* 141-149: eachMessage takes the next message of the partition and parses it
C_Receive ==
  /\ cpc = "idle"
  /\ offset < Len(log)
  /\ cev' = log[offset + 1]
  /\ cpc' = FirstStep(log[offset + 1].type)
  /\ cnum' = 0
  /\ hist' = [hist EXCEPT ![offset + 1] =
                IF @.n = 0
                  THEN [@ EXCEPT !.before = counter,
                                 !.paged = pageCache[<<1, DEFAULT_PAGE_SIZE>>].present]
                  ELSE @]
  /\ UNCHANGED <<dbVars, logVars, lockVars, cacheVars, procVars, callVars, fresh>>
  /\ UNCHANGED <<extVars, written>>

\* incrementCount 115: redisClient.incr
C_Incr ==
  /\ cpc = "incr"
  /\ counter' = IncrStore(counter)
  /\ cnum' = IncrStore(counter).value
  /\ cpc' = "incr_expire"
  /\ UNCHANGED <<dbVars, logVars, lockVars, pageCache, userCache, procVars, callVars,
                 fresh, cev, hist>>
  /\ UNCHANGED <<extVars, written>>

\* incrementCount 116: redisClient.expire
C_IncrExpire ==
  /\ cpc = "incr_expire"
  /\ counter' = ExpireCount(counter)
  /\ cpc' = "inval_count"
  /\ UNCHANGED <<dbVars, logVars, lockVars, pageCache, userCache, procVars, callVars,
                 fresh, cev, cnum, hist>>
  /\ UNCHANGED <<extVars, written>>

\* decrementCount 127-128: redisClient.decr, then the test of newCount
C_Decr ==
  /\ cpc = "decr"
  /\ counter' = DecrStore(counter)
  /\ cnum' = DecrStore(counter).value
  /\ cpc' = IF DecrStore(counter).value < 0 THEN "decr_clamp" ELSE "decr_expire"
  /\ UNCHANGED <<dbVars, logVars, lockVars, pageCache, userCache, procVars, callVars,
                 fresh, cev, hist>>
  /\ UNCHANGED <<extVars, written>>

\* decrementCount 129-130: redisClient.set(countKey, '0')
C_DecrClamp ==
  /\ cpc = "decr_clamp"
  /\ counter' = ClampStore(counter)
  /\ cnum' = 0
  /\ cpc' = "inval_count"
  /\ UNCHANGED <<dbVars, logVars, lockVars, pageCache, userCache, procVars, callVars,
                 fresh, cev, hist>>
  /\ UNCHANGED <<extVars, written>>

\* decrementCount 132: redisClient.expire
C_DecrExpire ==
  /\ cpc = "decr_expire"
  /\ counter' = ExpireCount(counter)
  /\ cpc' = "inval_count"
  /\ UNCHANGED <<dbVars, logVars, lockVars, pageCache, userCache, procVars, callVars,
                 fresh, cev, cnum, hist>>
  /\ UNCHANGED <<extVars, written>>

\* 186 / 207 / 233: await invalidateCount()
C_InvalCount ==
  /\ cpc = "inval_count"
  /\ counter' = invalidateCount(counter)
  /\ cpc' = "inval_pages"
  /\ UNCHANGED <<dbVars, logVars, lockVars, pageCache, userCache, procVars, callVars,
                 fresh, cev, cnum, hist>>
  /\ UNCHANGED <<extVars, written>>

\* 187 / 208 / 234: await invalidateAllPageCaches()
C_InvalPages ==
  /\ cpc = "inval_pages"
  /\ pageCache' = invalidateAllPageCaches(pageCache)
  /\ cpc' = AfterPages(cev.type)
  /\ written' = [k \in PageKeys |-> Gone(written[k])]
  /\ UNCHANGED <<dbVars, logVars, lockVars, counter, userCache, procVars, callVars,
                 fresh, cev, cnum, hist>>
  /\ UNCHANGED extVars

\* 210-212: if (event.data.oldEmail) await invalidateUserRSVP(event.data.oldEmail)
C_InvalOld ==
  /\ cpc = "inval_old"
  /\ userCache' = IF cev.oldEmail # "" THEN invalidateUserRSVP(userCache, cev.oldEmail)
                  ELSE userCache
  /\ cpc' = "set_user"
  /\ UNCHANGED <<dbVars, logVars, lockVars, pageCache, counter, procVars, callVars,
                 fresh, cev, cnum, hist>>
  /\ UNCHANGED <<extVars, written>>

\* the object handed to setUserRSVP (190-195, 215-220)
UserRec(e) ==
  [id |-> e.rsvpId, name |-> e.name, email |-> e.email,
   created_at |-> IF e.createdAt = Undefined THEN Now ELSE e.createdAt]

\* 189-196 / 214-221: if (email && rsvpId) await setUserRSVP(...)
C_SetUser ==
  /\ cpc = "set_user"
  /\ userCache' = IF cev.email # "" /\ cev.rsvpId # 0
                    THEN setUserRSVP(userCache, cev.email, UserRec(cev))
                    ELSE userCache
  /\ cpc' = "ack"
  /\ UNCHANGED <<dbVars, logVars, lockVars, pageCache, counter, procVars, callVars,
                 fresh, cev, cnum, hist>>
  /\ UNCHANGED <<extVars, written>>

\* 236-238: if (event.data.email) await invalidateUserRSVP(event.data.email)
C_InvalUser ==
  /\ cpc = "inval_user"
  /\ userCache' = IF cev.email # "" THEN invalidateUserRSVP(userCache, cev.email)
                  ELSE userCache
  /\ cpc' = "ack"
  /\ UNCHANGED <<dbVars, logVars, lockVars, pageCache, counter, procVars, callVars,
                 fresh, cev, cnum, hist>>
  /\ UNCHANGED <<extVars, written>>

\* 151: eachMessage resolves; the runner moves on to the next offset
C_Ack ==
  /\ cpc = "ack"
  /\ offset' = offset + 1
  /\ hist' = [hist EXCEPT ![offset + 1].n = @ + 1]
  /\ fresh' = [k \in PageKeys |-> cev]
  /\ cpc' = "idle"
  /\ cev' = NoEvent
  /\ cnum' = 0
  /\ UNCHANGED <<dbVars, log, redelivered, failed, lockVars, cacheVars, procVars,
                 callVars>>
  /\ UNCHANGED <<extVars, written>>

\* 118-121 / 134-137: a Redis error inside incrementCount or decrementCount is
\* rethrown, through the handler (199-202, 241-244), into eachMessage's catch
C_CounterFail ==
  /\ cpc \in {"incr", "incr_expire", "decr", "decr_clamp", "decr_expire"}
  /\ cpc' = "caught"
  /\ failed' = failed \cup {offset + 1}
  /\ UNCHANGED <<dbVars, log, offset, redelivered, lockVars, cacheVars, procVars,
                 callVars, fresh, cev, cnum, hist>>
  /\ UNCHANGED <<extVars, written>>

\* mutant: the error leaves eachMessage and the runner fetches the message again
ResolvedOffset_Retry(off) == off

\* eachMessage resolved: the runner goes on behind the message
ResolvedOffset(off) == off + 1

\* 152-154: catch (error) { console.error(...) }: eachMessage resolves all the same
C_Caught ==
  /\ cpc = "caught"
  /\ offset' = ResolvedOffset(offset)
  /\ cpc' = "idle"
  /\ cev' = NoEvent
  /\ cnum' = 0
  /\ UNCHANGED <<dbVars, log, redelivered, failed, lockVars, cacheVars, procVars,
                 callVars, fresh, hist>>
  /\ UNCHANGED <<extVars, written>>

Consumer ==
  \/ C_Incr
  \/ C_IncrExpire
  \/ C_Decr
  \/ C_DecrClamp
  \/ C_DecrExpire
  \/ C_InvalCount
  \/ C_InvalPages
  \/ C_SetUser
  \/ C_InvalUser
  \/ C_Ack

\* at-least-once delivery: after a restart or rebalance the group resumes from an
\* offset it had committed earlier, and the messages after it come again
Redeliver(j) ==
  /\ cpc = "idle"
  /\ redelivered < MaxRedeliver
  /\ j < offset
  /\ offset' = j
  /\ redelivered' = redelivered + 1
  /\ UNCHANGED <<dbVars, log, failed, consVars, lockVars, cacheVars, procVars, callVars,
                 fresh>>
  /\ UNCHANGED <<extVars, written>>

\* ------------------- write handlers, await by await (controller 17-362)

\* everything the write handlers leave alone: the consumer, the locks, the
\* callers of the cache functions, and the three caches
restVars == <<outbox, offset, redelivered, failed, consVars, lockVars, procVars,
              callVars, fresh, written, redisUp, scan, pureVars>>
readVars == <<restVars, cacheVars>>

\* the rows a WHERE id = $1 matches
RowsWithId(rows, id) == {i \in 1..Len(rows) : rows[i].id = id}

\* the 201 response (65-68) and the cancellation e-mail (60) carry the token; both
\* come after the created event's publish returned
TokenIssued(id) == \E i \in 1..Len(log) : log[i].type = "created" /\ log[i].rsvpId = id

\* req.userEmail / decoded.email: the e-mail the token was generated for (41)
TokenEmail(id) ==
  log[CHOOSE i \in 1..Len(log) : log[i].type = "created" /\ log[i].rsvpId = id].email

\* the handler responds with res.status(code) and returns: its request fields
\* are gone, its outcome stays
Respond(w, code) ==
  [w EXCEPT !.status = code, !.id = 0, !.email = "", !.name = "", !.found = ""]

\* POST /rsvps with a valid body (18-38 passed)
W_StartCreate(p, email, name) ==
  /\ wpc[p] \in {"idle", "done"}
  /\ wloc' = [wloc EXCEPT ![p] = [NoWrite EXCEPT !.op = "create", !.email = email,
                                                 !.name = name]]
  /\ wpc' = [wpc EXCEPT ![p] = "w_insert"]
  /\ UNCHANGED <<db, nextId, writes, log, readVars>>

\* 43-46: INSERT ... RETURNING; 70-73: a taken email raises 23505, answered 409
W_Insert(p) ==
  /\ wpc[p] = "w_insert"
  /\ \/ /\ EmailTaken(db, wloc[p].email, 0)
        /\ wloc' = [wloc EXCEPT ![p] = Respond(@, 409)]
        /\ wpc' = [wpc EXCEPT ![p] = "done"]
        /\ UNCHANGED <<db, nextId, writes>>
     \/ /\ ~EmailTaken(db, wloc[p].email, 0)
        /\ writes < MaxCommits
        /\ db' = Append(db, Row(nextId, wloc[p].name, wloc[p].email))
        /\ nextId' = nextId + 1
        /\ writes' = writes + 1
        /\ wloc' = [wloc EXCEPT ![p].id = nextId, ![p].committed = TRUE,
                      ![p].ev = [type |-> "created", rsvpId |-> nextId,
                                 email |-> wloc[p].email, oldEmail |-> "",
                                 name |-> wloc[p].name, createdAt |-> Iso(nextId),
                                 seq |-> writes + 1]]
        /\ wpc' = [wpc EXCEPT ![p] = "w_publish"]
  /\ UNCHANGED <<log, readVars>>

\* PUT /rsvps/:id, DELETE /rsvps/:id, DELETE by token: the caller holds the token
\* of record id; "" stands for a body field the request left out
W_StartChange(p, op, id, email, name) ==
  /\ wpc[p] \in {"idle", "done"}
  /\ TokenIssued(id)
  /\ op = "update" => (email # "" \/ name # "")
  /\ op # "update" => (email = "" /\ name = "")
  /\ wloc' = [wloc EXCEPT ![p] = [NoWrite EXCEPT !.op = op, !.id = id, !.email = email,
                                                 !.name = name]]
  /\ wpc' = [wpc EXCEPT ![p] = "w_check"]
  /\ UNCHANGED <<db, nextId, writes, log, readVars>>

\* 143-156 / 216-229: SELECT email WHERE id, 404 when absent, 403 when it is not
\* the token's; 325-333: SELECT WHERE email = decoded.email AND token, 404
W_Check(p) ==
  /\ wpc[p] = "w_check"
  /\ LET hit == {i \in RowsWithId(db, wloc[p].id) :
                   wloc[p].op = "cancel" => db[i].email = TokenEmail(wloc[p].id)}
     IN  IF hit = {}
           THEN /\ wloc' = [wloc EXCEPT ![p] = Respond(@, 404)]
                /\ wpc' = [wpc EXCEPT ![p] = "done"]
           ELSE LET i == CHOOSE i \in hit : TRUE
                IN  IF db[i].email # TokenEmail(wloc[p].id)
                      THEN /\ wloc' = [wloc EXCEPT ![p] = Respond(@, 403)]
                           /\ wpc' = [wpc EXCEPT ![p] = "done"]
                      ELSE /\ wloc' = [wloc EXCEPT ![p].found = db[i].email]
                           /\ wpc' = [wpc EXCEPT ![p] =
                                        CASE wloc[p].op = "update" -> "w_update"
                                          [] wloc[p].op = "delete" -> "w_delete"
                                          [] OTHER                 -> "w_cancel"]
  /\ UNCHANGED <<db, nextId, writes, log, readVars>>

\* 187-198: the updated event, built from the request and the row read at 143
UpdatedEvent(w, seq) ==
  [type |-> "updated", rsvpId |-> w.id,
   email |-> IF w.email # "" THEN w.email ELSE w.found,
   oldEmail |-> IF w.email # "" THEN w.found ELSE "",
   name |-> w.name, createdAt |-> Undefined, seq |-> seq]

\* 245-254 / 346-355: the deleted or cancelled event
RemovedEvent(w, type, seq) ==
  [type |-> type, rsvpId |-> w.id, email |-> w.found, oldEmail |-> "",
   name |-> "", createdAt |-> Undefined, seq |-> seq]

\* 182-185: UPDATE ... WHERE id RETURNING; the result is not inspected, so an
\* UPDATE that matches no row goes on to publish like one that matched
W_Update(p) ==
  /\ wpc[p] = "w_update"
  /\ LET hit == RowsWithId(db, wloc[p].id)
     IN  \/ /\ hit = {}
            /\ wloc' = [wloc EXCEPT ![p].ev = UpdatedEvent(wloc[p], 0)]
            /\ wpc' = [wpc EXCEPT ![p] = "w_publish"]
            /\ UNCHANGED <<db, writes>>
         \/ /\ hit # {}
            /\ LET i == CHOOSE i \in hit : TRUE
               IN  \/ /\ wloc[p].email # ""
                      /\ EmailTaken(db, wloc[p].email, i)
                      /\ wloc' = [wloc EXCEPT ![p] = Respond(@, 409)]
                      /\ wpc' = [wpc EXCEPT ![p] = "done"]
                      /\ UNCHANGED <<db, writes>>
                   \/ /\ wloc[p].email # "" => ~EmailTaken(db, wloc[p].email, i)
                      /\ writes < MaxCommits
                      /\ db' = [db EXCEPT
                                  ![i].email = IF wloc[p].email # "" THEN wloc[p].email ELSE @,
                                  ![i].name = IF wloc[p].name # "" THEN wloc[p].name ELSE @]
                      /\ writes' = writes + 1
                      /\ wloc' = [wloc EXCEPT ![p].committed = TRUE,
                                              ![p].ev = UpdatedEvent(wloc[p], writes + 1)]
                      /\ wpc' = [wpc EXCEPT ![p] = "w_publish"]
  /\ UNCHANGED <<nextId, log, readVars>>

\* 238-243: DELETE ... RETURNING id; rowCount === 0 is answered 404
W_Delete(p) ==
  /\ wpc[p] = "w_delete"
  /\ LET hit == RowsWithId(db, wloc[p].id)
     IN  \/ /\ hit = {}
            /\ wloc' = [wloc EXCEPT ![p] = Respond(@, 404)]
            /\ wpc' = [wpc EXCEPT ![p] = "done"]
            /\ UNCHANGED <<db, writes>>
         \/ /\ hit # {}
            /\ writes < MaxCommits
            /\ db' = Remove(db, CHOOSE i \in hit : TRUE)
            /\ writes' = writes + 1
            /\ wloc' = [wloc EXCEPT ![p].committed = TRUE,
                                    ![p].ev = RemovedEvent(wloc[p], "deleted", writes + 1)]
            /\ wpc' = [wpc EXCEPT ![p] = "w_publish"]
  /\ UNCHANGED <<nextId, log, readVars>>

\* 344: DELETE FROM rsvps WHERE id; the result is not inspected
W_Cancel(p) ==
  /\ wpc[p] = "w_cancel"
  /\ LET hit == RowsWithId(db, wloc[p].id)
     IN  \/ /\ hit = {}
            /\ wloc' = [wloc EXCEPT ![p].ev = RemovedEvent(wloc[p], "cancelled", 0)]
            /\ wpc' = [wpc EXCEPT ![p] = "w_publish"]
            /\ UNCHANGED <<db, writes>>
         \/ /\ hit # {}
            /\ writes < MaxCommits
            /\ db' = Remove(db, CHOOSE i \in hit : TRUE)
            /\ writes' = writes + 1
            /\ wloc' = [wloc EXCEPT ![p].committed = TRUE,
                                    ![p].ev = RemovedEvent(wloc[p], "cancelled", writes + 1)]
            /\ wpc' = [wpc EXCEPT ![p] = "w_publish"]
  /\ UNCHANGED <<nextId, log, readVars>>

\* mutant: the handler maintains the counter itself before it answers
CountAfterWrite_Maintained(c, op) ==
  CASE op = "create" -> IncrStore(c)
    [] op = "update" -> c
    [] OTHER         -> DecrStore(c)

\* 48-68 / 187-200 / 245-256 / 346-357: between the publish and the response
\* the handler calls none of the cache functions: rsvps:count stays as it is
CountAfterWrite(c, op) == c

\* res.status(...) after a publish that returned: 65, 200, 256, 357
SuccessStatus(op) == IF op = "create" THEN 201 ELSE IF op = "update" THEN 200 ELSE 204

\* 48-58 / 187-198 / 245-254 / 346-355: await eventProducer.publish(...) returns,
\* then the handler answers
W_Publish(p) ==
  /\ wpc[p] = "w_publish"
  /\ log' = Append(log, wloc[p].ev)
  /\ wloc' = [wloc EXCEPT ![p] = Respond(@, SuccessStatus(wloc[p].op))]
  /\ wpc' = [wpc EXCEPT ![p] = "done"]
  /\ counter' = CountAfterWrite(counter, wloc[p].op)
  /\ UNCHANGED <<db, nextId, writes, restVars, pageCache, userCache>>

\* kafkaProducer.send rejects: publish rethrows (producer 96-99) into the
\* handler's catch, which answers 500 (74-75, 206-207, 258-259, 359-360)
W_PublishFail(p) ==
  /\ wpc[p] = "w_publish"
  /\ wloc' = [wloc EXCEPT ![p] = Respond([@ EXCEPT !.pubFailed = TRUE], 500)]
  /\ wpc' = [wpc EXCEPT ![p] = "done"]
  /\ UNCHANGED <<db, nextId, writes, log, readVars>>

WriteHandler(p) ==
  \/ W_Insert(p)
  \/ W_Check(p)
  \/ W_Update(p)
  \/ W_Delete(p)
  \/ W_Cancel(p)
  \/ W_Publish(p)

ChangeOps == {"update", "delete", "cancel"}

\* ----------------- Redis unreachable: the catch branches of utils/cache.ts

\* what a call that only gets rejections from the Redis client leaves alone
storeVars == <<dbVars, logVars, consVars, lockVars, cacheVars, callVars, fresh, wpc,
               wloc, written, scan, pureVars>>

NoCallInFlight == \A p \in Procs : pc[p] \in {"idle", "done"}

\* the connection to Redis is lost, and comes back, between two calls
RedisDown ==
  /\ redisUp
  /\ NoCallInFlight
  /\ redisUp' = FALSE
  /\ UNCHANGED <<storeVars, procVars>>

RedisBack ==
  /\ ~redisUp
  /\ NoCallInFlight
  /\ redisUp' = TRUE
  /\ UNCHANGED <<storeVars, procVars>>

\* 218 / 80-83: redisClient.get rejects, getCachedPage returns null: a miss
PL_CheckDown(p) ==
  /\ ~redisUp
  /\ pc[p] = "pl_check"
  /\ pc' = [pc EXCEPT ![p] = "pl_setnx"]
  /\ loc' = [loc EXCEPT ![p].missed = TRUE, ![p].down = TRUE]
  /\ UNCHANGED <<storeVars, redisUp>>

\* 223 / 57-60: redisClient.setNX rejects, acquireLock returns false; 224-229
PL_SetNXDown(p) ==
  /\ ~redisUp
  /\ pc[p] = "pl_setnx"
  /\ loc' = [loc EXCEPT ![p].attempt = NextAttempt(@)]
  /\ pc' = [pc EXCEPT ![p] = IF NextAttempt(loc[p].attempt) < MAX_RETRY_ATTEMPTS
                               THEN "pl_check" ELSE "pl_stale"]
  /\ UNCHANGED <<storeVars, redisUp>>

\* 231-236: the stale read rejects too, getCachedPage returns null: throw
PL_StaleDown(p) ==
  /\ ~redisUp
  /\ pc[p] = "pl_stale"
  /\ pc' = [pc EXCEPT ![p] = "done"]
  /\ loc' = [loc EXCEPT ![p] = Forget(Throw(p))]
  /\ UNCHANGED <<storeVars, redisUp>>

\* 265 / 106-109: redisClient.get rejects, getAtomicCount returns null
CL_GetDown(p) ==
  /\ ~redisUp
  /\ pc[p] = "cl_get"
  /\ pc' = [pc EXCEPT ![p] = "cl_setnx"]
  /\ loc' = [loc EXCEPT ![p].missed = TRUE, ![p].down = TRUE]
  /\ UNCHANGED <<storeVars, redisUp>>

\* 271 / 57-60: acquireLock returns false
CL_SetNXDown(p) ==
  /\ ~redisUp
  /\ pc[p] = "cl_setnx"
  /\ pc' = [pc EXCEPT ![p] = "cl_stale"]
  /\ UNCHANGED <<storeVars, redisUp, loc>>

\* 274-278: staleCount is null: throw 'Failed to acquire count lock'
CL_StaleDown(p) ==
  /\ ~redisUp
  /\ pc[p] = "cl_stale"
  /\ pc' = [pc EXCEPT ![p] = "done"]
  /\ loc' = [loc EXCEPT ![p] = Forget(Throw(p))]
  /\ UNCHANGED <<storeVars, redisUp>>

ReaderDown(p) ==
  \/ PL_CheckDown(p)
  \/ PL_SetNXDown(p)
  \/ PL_StaleDown(p)
  \/ CL_GetDown(p)
  \/ CL_SetNXDown(p)
  \/ CL_StaleDown(p)

\* ------------------- the cache API called directly (cache.ts 71-99, 158-198)

\* a row as the consumer's payload or an earlier JSON.parse carries it
JsonRow(id, name, email) ==
  [id |-> id, name |-> name, email |-> email, created_at |-> Iso(id)]

\* records a caller can pass: full table rows (token, Date) and JSON records
InputRecs == {Row(1, "ann", "a@x"), Row(2, "ann", "b@x"),
              JsonRow(1, "ann", "a@x"), JsonRow(2, "ann", "b@x")}

\* record sequences of up to two records, newest first
InputPages ==
  {<<>>} \cup {<<r>> : r \in InputRecs}
         \cup {<<pr[1], pr[2]>> : pr \in {x \in InputRecs \X InputRecs : x[1].id > x[2].id}}

apiVars == <<dbVars, logVars, consVars, lockVars, callVars, fresh, extVars>>

\* setCachedPage(page, limit, data) with an array: sanitizeData, stringify, SETEX
S_SetPage(k, rows) ==
  /\ pageCache' = [pageCache EXCEPT ![getPageCacheKey(k[1], k[2])] = PageEntry(rows)]
  /\ written' = [written EXCEPT ![k] = Stored(rows)]
  /\ UNCHANGED <<apiVars, counter, userCache, procVars>>

\* a caller enters getCachedPage(page, limit)
S_StartGet(p, k) ==
  /\ pc[p] = "idle"
  /\ pc' = [pc EXCEPT ![p] = "s_get"]
  /\ loc' = [loc EXCEPT ![p] = [NoLoc EXCEPT !.op = "get", !.key = k]]
  /\ UNCHANGED <<apiVars, cacheVars, written>>

\* 74-79: GET, JSON.parse, sanitizeData; null when the key is missing
S_GetPage(p) ==
  /\ pc[p] = "s_get"
  /\ pc' = [pc EXCEPT ![p] = "done"]
  /\ loc' = [loc EXCEPT ![p] =
               IF pageHit(pageCache, loc[p].key)
                 THEN Return(p, getCachedPage(pageCache, loc[p].key))
                 ELSE [loc[p] EXCEPT !.kind = "null", !.missed = TRUE]]
  /\ UNCHANGED <<apiVars, cacheVars, written>>

\* invalidatePage(page, limit): DEL of the page key
S_InvalidatePage(k) ==
  /\ pageCache[k].present
  /\ pageCache' = [pageCache EXCEPT ![getPageCacheKey(k[1], k[2])] = NoPage]
  /\ written' = [written EXCEPT ![k] = Gone(@)]
  /\ UNCHANGED <<apiVars, counter, userCache, procVars>>

\* setUserRSVP(email, rsvpData): JSON.stringify(rsvpData) as it is, SETEX
S_SetUser(rec) ==
  /\ userCache' = setUserRSVP(userCache, rec.email, JsonRoundTrip(rec))
  /\ UNCHANGED <<apiVars, pageCache, counter, procVars, written>>

\* --------------- a client paging through the table (controller 79-98)

Ids(rows) == [i \in 1..Len(rows) |-> rows[i].id]
Range(s) == {s[i] : i \in 1..Len(s)}

\* the client's first request: fetchPage for (page, limit) on the table as it is
Scan_First(page, limit) ==
  /\ scan.step = 0
  /\ scan' = [NoScan EXCEPT !.step = 1, !.page = page, !.limit = limit,
                            !.before = Ids(OrderNewestFirst(db)),
                            !.first = fetchPage(db, page, limit)]
  /\ UNCHANGED <<dbVars, logVars, consVars, lockVars, cacheVars, procVars, callVars,
                 fresh, wpc, wloc, redisUp, written, pureVars>>

\* its next request: fetchPage for (page + 1, limit) on the table as it is then
Scan_Second ==
  /\ scan.step = 1
  /\ scan' = [scan EXCEPT !.step = 2, !.after = Ids(OrderNewestFirst(db)),
                          !.second = fetchPage(db, scan.page + 1, scan.limit)]
  /\ UNCHANGED <<dbVars, logVars, consVars, lockVars, cacheVars, procVars, callVars,
                 fresh, wpc, wloc, redisUp, written, pureVars>>

\* ------------------------- getAllRSVPs: the response (controller 79-119)

Max(a, b) == IF a > b THEN a ELSE b

\* parseInt of a query parameter: NaN when it is missing or not a number
QueryInts == {[nan |-> TRUE, n |-> 0]} \cup
             {[nan |-> FALSE, n |-> v] : v \in {0 - 1, 0, 1, 2, 3, 101}}

\* parseInt(q) || d : NaN and 0 are falsy
OrDefault(q, d) == IF q.nan \/ q.n = 0 THEN d ELSE q.n

\* 81: page = Math.max(1, parseInt(req.query.page) || 1)
ParsePage(q) == Max(1, OrDefault(q, 1))

\* 82: limit = Math.min(100, Math.max(1, parseInt(req.query.limit) || 20))
ParseLimit(q) == Min(100, Max(1, OrDefault(q, DEFAULT_PAGE_SIZE)))

\* 105: Math.ceil(total / limit)
TotalPages(total, limit) == 0 - ((0 - total) \div limit)

\* mutant: the last page still announces a next one
HasNext_Inclusive(page, totalPages) == page <= totalPages

\* 114: hasNext: page < totalPages
HasNext(page, totalPages) == page < totalPages

\* 115: hasPrev: page > 1
HasPrev(page) == page > 1

\* 100-123: Promise.all has settled: the count call of p has returned or thrown,
\* the page call did one or the other (pageOk); the response is the pagination
\* built on total, or the 500 of the catch
G_Respond(p, qpage, qlimit, pageOk) ==
  /\ pc[p] = "done"
  /\ loc[p].op = "count"
  /\ LET page == ParsePage(qpage)
         limit == ParseLimit(qlimit)
         total == loc[p].num
         totalPages == TotalPages(total, limit)
     IN  resp' = IF pageOk /\ loc[p].kind = "value"
                   THEN [status |-> 200, page |-> page, limit |-> limit,
                         total |-> total, totalPages |-> totalPages,
                         hasNext |-> HasNext(page, totalPages),
                         hasPrev |-> HasPrev(page)]
                   ELSE [NoResp EXCEPT !.status = 500]
  /\ pc' = [pc EXCEPT ![p] = "sent"]
  /\ loc' = [loc EXCEPT ![p] = NoLoc]
  /\ UNCHANGED <<dbVars, logVars, consVars, lockVars, cacheVars, callVars, fresh,
                 wpc, wloc, redisUp, written, scan, san, calls>>

\* ------------------ sanitizers (utils/validation.ts 87-140), strings as
\* ------------------ sequences of characters

DANGEROUS_CHARS == {"<", ">", "\"", "'", "&"}
JAVASCRIPT_PROTOCOL == <<"j", "a", "v", "a", "s", "c", "r", "i", "p", "t", ":">>
DATA_PROTOCOL == <<"d", "a", "t", "a", ":">>
ScriptOpen == <<"<", "s", "c", "r", "i", "p", "t">>
ScriptClose == <<"<", "/", "s", "c", "r", "i", "p", "t", ">">>

\* the characters of the inputs that are not \w
NonWordChars == DANGEROUS_CHARS \cup {":", " ", "/", "(", ")", "@", ".", "-"}

\* String.prototype.toLowerCase, and the i flag of the patterns
LowerChar(c) == CASE c = "J" -> "j" [] c = "D" -> "d" [] c = "S" -> "s" [] OTHER -> c
toLowerCase(s) == [i \in 1..Len(s) |-> LowerChar(s[i])]

\* pat matches s at position i, ignoring case
MatchAt(s, i, pat) ==
  /\ i + Len(pat) - 1 <= Len(s)
  /\ \A k \in 1..Len(pat) : LowerChar(s[i + k - 1]) = pat[k]

\* s.replace(/pat/gi, ''): the matches found scanning from position i on, each
\* search resuming behind the match before
RECURSIVE RemoveFrom(_, _, _)
RemoveFrom(s, i, pat) ==
  IF i > Len(s) THEN <<>>
  ELSE IF MatchAt(s, i, pat) THEN RemoveFrom(s, i + Len(pat), pat)
  ELSE <<s[i]>> \o RemoveFrom(s, i + 1, pat)

\* 93: /<script\b[^<]*(?:(?!<\/script>)<[^<]*)*<\/script>/gi matches from a
\* "<script" followed by a non-word character up to the first "</script>" behind
\* it: no "<" that starts a "</script>" can be consumed on the way
ScriptCloseAt(s, i) ==
  IF MatchAt(s, i, ScriptOpen) /\ i + 7 <= Len(s) /\ s[i + 7] \in NonWordChars
     /\ \E j \in (i + 7)..Len(s) : MatchAt(s, j, ScriptClose)
    THEN CHOOSE j \in (i + 7)..Len(s) :
           /\ MatchAt(s, j, ScriptClose)
           /\ \A h \in (i + 7)..(j - 1) : ~MatchAt(s, h, ScriptClose)
    ELSE 0

RECURSIVE RemoveScriptsFrom(_, _)
RemoveScriptsFrom(s, i) ==
  IF i > Len(s) THEN <<>>
  ELSE IF ScriptCloseAt(s, i) > 0
         THEN RemoveScriptsFrom(s, ScriptCloseAt(s, i) + Len(ScriptClose))
  ELSE <<s[i]>> \o RemoveScriptsFrom(s, i + 1)

IsDangerous(c) == c \in DANGEROUS_CHARS
IsSafe(c) == ~IsDangerous(c)

\* String.prototype.trim on the inputs' only whitespace character
RECURSIVE TrimLeft(_)
TrimLeft(s) == IF s # <<>> /\ Head(s) = " " THEN TrimLeft(Tail(s)) ELSE s
trim(s) == Reverse(TrimLeft(Reverse(TrimLeft(s))))

substring(s, n) == SubSeq(s, 1, Min(n, Len(s)))

\* 100-119
sanitizeString(input) ==
  LET noScript == RemoveScriptsFrom(input, 1)
      noJs == RemoveFrom(noScript, 1, JAVASCRIPT_PROTOCOL)
      noData == RemoveFrom(noJs, 1, DATA_PROTOCOL)
      noChars == SelectSeq(noData, IsSafe)
  IN  trim(noChars)

\* 126-129
sanitizeName(name) == substring(sanitizeString(name), 100)

\* 137-140
sanitizeEmail(email) == substring(sanitizeString(toLowerCase(trim(email))), 200)

\* request values: a protocol, a script element or a plain word, with one more
\* fragment put in at any position
Splice(base, pos, frag) == SubSeq(base, 1, pos) \o frag \o SubSeq(base, pos + 1, Len(base))

SanBases == {JAVASCRIPT_PROTOCOL, DATA_PROTOCOL, <<"a", "n", "n">>,
             <<"a", "@", "x", ".", "c">>,
             ScriptOpen \o <<">", "x">> \o ScriptClose}

SanFragments == {<<>>, <<"<">>, <<">">>, <<"\"">>, <<"'">>, <<"&">>, <<" ">>, <<"J">>,
                 JAVASCRIPT_PROTOCOL, DATA_PROTOCOL, ScriptOpen \o <<">">>, ScriptClose}

SanInputs == UNION {{Splice(b, pos, f) : pos \in 0..Len(b)} :
                      b \in SanBases, f \in SanFragments}

notSan == <<dbVars, logVars, consVars, lockVars, cacheVars, procVars, callVars, fresh,
            wpc, wloc, redisUp, written, scan, resp, calls>>

\* controller 26 / 137: sanitizeName(rawName)
CallSanitizeName(input) ==
  /\ san.fn = "none"
  /\ san' = [fn |-> "sanitizeName", input |-> input, output |-> sanitizeName(input)]
  /\ UNCHANGED notSan

\* controller 27 / 138: sanitizeEmail(rawEmail)
CallSanitizeEmail(input) ==
  /\ san.fn = "none"
  /\ san' = [fn |-> "sanitizeEmail", input |-> input, output |-> sanitizeEmail(input)]
  /\ UNCHANGED notSan

\* -------------- fetchFunction rejects (cache.ts 245-256, 287-292)

\* mutant: the catch block returns with no finally behind it
AfterCatch_Return == "done"

\* 254-256: whatever the catch block does, finally runs releaseLock next
AfterCatch == "pl_release"

\* 245: await fetchFunction() rejects (the SELECT of controller 93-96 fails)
PL_FetchFail(p) ==
  /\ pc[p] = "pl_fetch"
  /\ fetchCalls' = [fetchCalls EXCEPT ![loc[p].key] = @ + 1]
  /\ pc' = [pc EXCEPT ![p] = "pl_catch"]
  /\ UNCHANGED <<dbVars, logVars, consVars, lockVars, cacheVars, countFetches, loc, fresh>>
  /\ UNCHANGED <<extVars, written>>

\* 248-253: catch: staleData = await getCachedPage(page, limit), returned when
\* there is one, else the error is thrown again
PL_Catch(p) ==
  /\ pc[p] = "pl_catch"
  /\ loc' = [loc EXCEPT ![p] =
               IF pageHit(pageCache, loc[p].key)
                 THEN Return(p, getCachedPage(pageCache, loc[p].key))
                 ELSE Throw(p)]
  /\ pc' = [pc EXCEPT ![p] = AfterCatch]
  /\ UNCHANGED <<dbVars, logVars, consVars, lockVars, cacheVars, callVars, fresh>>
  /\ UNCHANGED <<extVars, written>>

\* 54 / 57-60: redisClient.expire rejects after setNX created the entry:
\* acquireLock's catch returns false, the caller goes on as one that was refused
\* (224-236) and the entry stays without expiry
PL_ExpireFail(p) ==
  /\ pc[p] = "pl_expire"
  /\ loc' = [loc EXCEPT ![p].attempt = NextAttempt(@)]
  /\ pc' = [pc EXCEPT ![p] = IF NextAttempt(loc[p].attempt) < MAX_RETRY_ATTEMPTS
                               THEN "pl_check" ELSE "pl_stale"]
  /\ UNCHANGED <<dbVars, logVars, consVars, lockVars, cacheVars, callVars, fresh>>
  /\ UNCHANGED <<extVars, written>>

\* the same inside getCachedCountWithLock (271-279)
CL_ExpireFail(p) ==
  /\ pc[p] = "cl_expire"
  /\ pc' = [pc EXCEPT ![p] = "cl_stale"]
  /\ UNCHANGED <<dbVars, logVars, consVars, lockVars, cacheVars, callVars, loc, fresh>>
  /\ UNCHANGED <<extVars, written>>

\* 287: await fetchFunction() rejects (controller 86); there is no catch, the
\* error leaves through finally (290-292)
CL_QueryFail(p) ==
  /\ pc[p] = "cl_query"
  /\ countFetches' = countFetches + 1
  /\ loc' = [loc EXCEPT ![p] = Throw(p)]
  /\ pc' = [pc EXCEPT ![p] = "cl_release"]
  /\ UNCHANGED <<dbVars, logVars, consVars, lockVars, cacheVars, fetchCalls, fresh>>
  /\ UNCHANGED <<extVars, written>>

\* ------- incrementCount / decrementCount called concurrently (112-138)

countCallVars == <<dbVars, logVars, consVars, lockVars, callVars, fresh, wpc, wloc,
                   redisUp, written, scan, resp, san, pageCache, userCache>>

\* a process (a consumer instance of the group) enters incrementCount()
K_StartIncr(p) ==
  /\ pc[p] \in {"idle", "done"}
  /\ calls.incr + calls.decr < MaxCalls
  /\ calls' = [calls EXCEPT !.incr = @ + 1]
  /\ pc' = [pc EXCEPT ![p] = "k_incr"]
  /\ loc' = [loc EXCEPT ![p] = [NoLoc EXCEPT !.op = "incr"]]
  /\ UNCHANGED <<countCallVars, counter>>

\* 115: newCount = await redisClient.incr(countKey)
K_Incr(p) ==
  /\ pc[p] = "k_incr"
  /\ counter' = IncrStore(counter)
  /\ loc' = [loc EXCEPT ![p].num = IncrStore(counter).value]
  /\ pc' = [pc EXCEPT ![p] = "k_incr_expire"]
  /\ UNCHANGED <<countCallVars, calls>>

\* 116-117: await redisClient.expire(countKey, COUNT_TTL); return newCount
K_IncrExpire(p) ==
  /\ pc[p] = "k_incr_expire"
  /\ counter' = ExpireCount(counter)
  /\ loc' = [loc EXCEPT ![p] = ReturnCount(p, loc[p].num)]
  /\ pc' = [pc EXCEPT ![p] = "done"]
  /\ UNCHANGED <<countCallVars, calls>>

\* a process enters decrementCount()
K_StartDecr(p) ==
  /\ pc[p] \in {"idle", "done"}
  /\ calls.incr + calls.decr < MaxCalls
  /\ calls' = [calls EXCEPT !.decr = @ + 1]
  /\ pc' = [pc EXCEPT ![p] = "k_decr"]
  /\ loc' = [loc EXCEPT ![p] = [NoLoc EXCEPT !.op = "decr"]]
  /\ UNCHANGED <<countCallVars, counter>>

\* 127-128: newCount = await redisClient.decr(countKey); if (newCount < 0)
K_Decr(p) ==
  /\ pc[p] = "k_decr"
  /\ counter' = DecrStore(counter)
  /\ loc' = [loc EXCEPT ![p].num = DecrStore(counter).value]
  /\ pc' = [pc EXCEPT ![p] = IF DecrStore(counter).value < 0 THEN "k_clamp"
                               ELSE "k_decr_expire"]
  /\ UNCHANGED <<countCallVars, calls>>

\* 129-130: await redisClient.set(countKey, '0'); return 0
K_Clamp(p) ==
  /\ pc[p] = "k_clamp"
  /\ counter' = ClampStore(counter)
  /\ loc' = [loc EXCEPT ![p] = ReturnCount(p, 0)]
  /\ pc' = [pc EXCEPT ![p] = "done"]
  /\ UNCHANGED <<countCallVars, calls>>

\* 132-133: await redisClient.expire(countKey, COUNT_TTL); return newCount
K_DecrExpire(p) ==
  /\ pc[p] = "k_decr_expire"
  /\ counter' = ExpireCount(counter)
  /\ loc' = [loc EXCEPT ![p] = ReturnCount(p, loc[p].num)]
  /\ pc' = [pc EXCEPT ![p] = "done"]
  /\ UNCHANGED <<countCallVars, calls>>

\* ------------------- invalidateFirstPageAllLimits (cache.ts 158-174)

\* 172: const commonLimits = [20, 50, 100]
commonLimits == <<20, 50, 100>>

\* the page sizes getAllRSVPs can ask for (controller 82), the common ones included
RequestLimits == {ParseLimit(q) : q \in QueryInts} \cup {commonLimits[i] : i \in 1..Len(commonLimits)}
FirstPageKeys == {getPageCacheKey(1, l) : l \in RequestLimits}

\* the service with one row in the table and a page cache over the first pages
\* of every page size
InitLimits ==
  /\ db = <<Row(1, "ann", "a@x")>>
  /\ nextId = 2
  /\ outbox = {}
  /\ log = <<>>
  /\ offset = 0
  /\ redelivered = 0
  /\ cpc = "idle"
  /\ cev = NoEvent
  /\ cnum = 0
  /\ lock = [k \in LockKeys |-> "none"]
  /\ pageCache = [k \in FirstPageKeys |-> NoPage]
  /\ counter = NoCounter
  /\ userCache = [e \in Emails |-> NoUser]
  /\ pc = [p \in Procs |-> "idle"]
  /\ loc = [p \in Procs |-> NoLoc]
  /\ fetchCalls = [k \in FirstPageKeys |-> 0]
  /\ countFetches = 0
  /\ holder = [k \in LockKeys |-> {}]
  /\ writes = 0
  /\ failed = {}
  /\ hist = [i \in 1..MaxWrites |-> NoHist]
  /\ fresh = [k \in FirstPageKeys |-> NoEvent]
  /\ wpc = [p \in Procs |-> "idle"]
  /\ wloc = [p \in Procs |-> NoWrite]
  /\ redisUp = TRUE
  /\ written = [k \in FirstPageKeys |-> NoWritten]
  /\ scan = NoScan
  /\ resp = NoResp
  /\ san = NoSan
  /\ calls = NoCalls

\* a caller enters invalidateFirstPageAllLimits(): 173 maps commonLimits to
\* invalidatePage(1, limit) calls, whose DEL commands go out in that order
I_Start(p) ==
  /\ pc[p] = "idle"
  /\ pc' = [pc EXCEPT ![p] = "i_del"]
  /\ loc' = [loc EXCEPT ![p] = [NoLoc EXCEPT !.op = "inval_first", !.data = commonLimits]]
  /\ UNCHANGED <<apiVars, cacheVars, written>>

\* 158-165: invalidatePage(1, limit): DEL of the page key; Promise.all resolves
\* once the last one has
I_Del(p) ==
  /\ pc[p] = "i_del"
  /\ LET k == getPageCacheKey(1, Head(loc[p].data))
     IN  /\ pageCache' = [pageCache EXCEPT ![k] = NoPage]
         /\ written' = [written EXCEPT ![k] = Gone(@)]
  /\ loc' = [loc EXCEPT ![p].data = Tail(@)]
  /\ pc' = [pc EXCEPT ![p] = IF Tail(loc[p].data) = <<>> THEN "done" ELSE "i_del"]
  /\ UNCHANGED <<apiVars, counter, userCache>>

\* --------------------------------------------------------- the store's TTLs

\* a lock key that carries an expiry disappears once its ttl has run out
LockExpire(k) ==
  /\ lock[k] = "ttl"
  /\ lock' = [lock EXCEPT ![k] = "none"]
  /\ holder' = [holder EXCEPT ![k] = {}]
  /\ UNCHANGED <<dbVars, logVars, consVars, cacheVars, procVars, callVars, fresh>>
  /\ UNCHANGED <<extVars, written>>

\* a page key disappears ATTENDEE_PAGE_TTL after setEx
PageExpire(k) ==
  /\ pageCache[k].present
  /\ pageCache' = [pageCache EXCEPT ![k] = NoPage]
  /\ written' = [written EXCEPT ![k] = Gone(@)]
  /\ UNCHANGED <<dbVars, logVars, consVars, lockVars, counter, userCache, procVars,
                 callVars, fresh>>
  /\ UNCHANGED extVars

\* the counter key disappears once an expiry it carries has run out
CounterExpire ==
  /\ counter.present
  /\ counter.ttl
  /\ counter' = NoCounter
  /\ UNCHANGED <<dbVars, logVars, consVars, lockVars, pageCache, userCache, procVars,
                 callVars, fresh>>
  /\ UNCHANGED <<extVars, written>>

\* the process of a request dies while it runs acquireLock or holds the lock
HoldsLockPc == {"pl_expire", "pl_dbl", "pl_fetch", "pl_set", "pl_release"}

Crash(p) ==
  /\ pc[p] \in HoldsLockPc
  /\ pc' = [pc EXCEPT ![p] = "crashed"]
  /\ UNCHANGED <<dbVars, logVars, consVars, lockVars, cacheVars, loc, callVars, fresh>>
  /\ UNCHANGED <<extVars, written>>

\* ------------------------------------------------------- specifications

\* concurrent page reads over a loaded table, lock keys expiring
NextRace ==
  \/ \E p \in Procs, k \in PageKeys : PL_Start(p, k)
  \/ \E p \in Procs : PageReader(p)
  \/ \E p \in Procs : PL_Stale(p)
  \/ \E k \in PageKeys : LockExpire(k)

SpecRace == InitLoaded /\ [][NextRace]_vars

\* the same, with processes that may die while holding the lock
NextCrash ==
  \/ \E p \in Procs, k \in PageKeys : PL_Start(p, k)
  \/ \E p \in Procs : PageReader(p)
  \/ \E p \in Procs : PL_Stale(p)
  \/ \E k \in PageKeys : LockExpire(k)
  \/ \E p \in Procs : Crash(p)

SpecCrash == InitLoaded /\ [][NextCrash]_vars

\* concurrent count reads over a loaded table, the count lock expiring
NextCountRace ==
  \/ \E p \in Procs : CL_Start(p)
  \/ \E p \in Procs : CountReader(p)
  \/ \E p \in Procs : CL_Stale(p)
  \/ LockExpire(getCountLockKey)

SpecCountRace == InitLoaded /\ [][NextCountRace]_vars

\* writes, the consumer applying their events, and concurrent count reads
NextCount ==
  \/ \E e \in Emails, n \in Names : Create(e, n)
  \/ \E i \in 1..MaxWrites : Delete(i, "deleted")
  \/ \E e \in outbox : Publish(e)
  \/ C_Receive
  \/ Consumer
  \/ \E p \in Procs : CL_Start(p)
  \/ \E p \in Procs : CountReader(p)
  \/ \E p \in Procs : CL_Stale(p)
  \/ LockExpire(getCountLockKey)
  \/ CounterExpire

SpecCount == Init /\ [][NextCount]_vars

\* nothing in flight: no request inside a cache call, no write awaiting its
\* publish, the consumer between messages
Idle ==
  /\ \A p \in Procs : pc[p] \in {"idle", "done"}
  /\ cpc = "idle"
  /\ outbox = {}

\* every operation of the service, one at a time: an operation begins only when
\* nothing else is in flight; the transport may deliver a message again
NextSeq ==
  \/ Idle /\ \E p \in Procs, k \in PageKeys : PL_Start(p, k)
  \/ Idle /\ \E p \in Procs : CL_Start(p)
  \/ Idle /\ \E e \in Emails, n \in Names : Create(e, n)
  \/ Idle /\ \E i \in 1..MaxWrites, t \in {"deleted", "cancelled"} : Delete(i, t)
  \/ Idle /\ C_Receive
  \/ Idle /\ \E j \in 0..MaxWrites : Redeliver(j)
  \/ \E e \in outbox : Publish(e)
  \/ \E p \in Procs : PageReader(p)
  \/ \E p \in Procs : CountReader(p)
  \/ Consumer
  \/ \E k \in LockKeys : LockExpire(k)
  \/ \E k \in PageKeys : PageExpire(k)
  \/ CounterExpire

SpecSeq == Init /\ [][NextSeq]_vars

\* the consumer when Redis fails under incrementCount / decrementCount
NextFault ==
  \/ \E e \in Emails, n \in Names : Create(e, n)
  \/ \E i \in 1..MaxWrites : Delete(i, "deleted")
  \/ \E e \in outbox : Publish(e)
  \/ C_Receive
  \/ Consumer
  \/ C_CounterFail
  \/ C_Caught

SpecFault == Init /\ [][NextFault]_vars

\* concurrent write requests on an empty table, publishes that can fail
NextWrite ==
  \/ \E p \in Procs, e \in Emails, n \in Names : W_StartCreate(p, e, n)
  \/ \E p \in Procs, op \in ChangeOps, id \in 1..MaxCommits,
        e \in Emails \cup {""}, n \in Names \cup {""} : W_StartChange(p, op, id, e, n)
  \/ \E p \in Procs : WriteHandler(p)
  \/ \E p \in Procs : W_PublishFail(p)

SpecWrite == Init /\ [][NextWrite]_vars

\* list reads over a loaded table while Redis comes and goes; a call runs either
\* wholly with Redis or wholly without it
NextOutage ==
  \/ \E p \in Procs, k \in PageKeys : PL_Start(p, k)
  \/ \E p \in Procs : CL_Start(p)
  \/ \E p \in Procs : redisUp /\ PageReader(p)
  \/ \E p \in Procs : redisUp /\ PL_Stale(p)
  \/ \E p \in Procs : redisUp /\ CountReader(p)
  \/ \E p \in Procs : redisUp /\ CL_Stale(p)
  \/ \E p \in Procs : ReaderDown(p)
  \/ \E k \in PageKeys : PageExpire(k)
  \/ RedisDown
  \/ RedisBack

SpecOutage == InitLoaded /\ [][NextOutage]_vars

\* callers of the cache API with arbitrary record sequences
NextStore ==
  \/ \E k \in PageKeys, rows \in InputPages : S_SetPage(k, rows)
  \/ \E p \in Procs, k \in PageKeys : S_StartGet(p, k)
  \/ \E p \in Procs : S_GetPage(p)
  \/ \E k \in PageKeys : S_InvalidatePage(k)
  \/ \E k \in PageKeys : PageExpire(k)
  \/ \E rec \in {r \in InputRecs : r.id = 1} : S_SetUser(rec)

SpecStore == Init /\ [][NextStore]_vars

\* one client reads two consecutive pages while other requests insert and delete
NextScan ==
  \/ \E page \in 1..MaxScanPage, limit \in 1..MaxScanLimit : Scan_First(page, limit)
  \/ Scan_Second
  \/ \E e \in Emails, n \in Names : Create(e, n)
  \/ \E i \in 1..MaxWrites : Delete(i, "deleted")
  \/ \E e \in outbox : Publish(e)

SpecScan == InitLoaded /\ [][NextScan]_vars

\* requests for the list on a filled table: the count call, then the response
NextList ==
  \/ \E p \in Procs : CL_Start(p)
  \/ \E p \in Procs : CountReader(p)
  \/ \E p \in Procs : CL_Stale(p)
  \/ \E p \in Procs, qpage \in QueryInts, qlimit \in QueryInts, pageOk \in BOOLEAN :
       G_Respond(p, qpage, qlimit, pageOk)

SpecList == InitLoaded /\ [][NextList]_vars

\* the sanitizers applied to request values
NextSanitize ==
  \/ \E input \in SanInputs : CallSanitizeName(input)
  \/ \E input \in SanInputs : CallSanitizeEmail(input)

SpecSanitize == Init /\ [][NextSanitize]_vars

\* concurrent page and count reads whose fetches and EXPIRE commands may fail,
\* lock keys expiring
NextRelease ==
  \/ \E p \in Procs, k \in PageKeys : PL_Start(p, k)
  \/ \E p \in Procs : PageReader(p)
  \/ \E p \in Procs : PL_Stale(p)
  \/ \E p \in Procs : PL_FetchFail(p)
  \/ \E p \in Procs : PL_Catch(p)
  \/ \E p \in Procs : CL_Start(p)
  \/ \E p \in Procs : CountReader(p)
  \/ \E p \in Procs : CL_Stale(p)
  \/ \E p \in Procs : CL_QueryFail(p)
  \/ \E p \in Procs : PL_ExpireFail(p)
  \/ \E p \in Procs : CL_ExpireFail(p)
  \/ \E k \in LockKeys : LockExpire(k)

SpecRelease == InitLoaded /\ [][NextRelease]_vars

\* the steps of p's getCachedPageWithLock call, fetch included
PageStep(p) ==
  \/ PageReader(p)
  \/ PL_Stale(p)
  \/ PL_FetchFail(p)
  \/ PL_Catch(p)
  \/ PL_ExpireFail(p)

NextTerm ==
  \/ \E p \in Procs, k \in PageKeys : PL_Start(p, k)
  \/ \E p \in Procs : PageStep(p)
  \/ \E k \in PageKeys : LockExpire(k)

\* every await of a call settles (Redis answers, the fetch function
\* terminates), and the continuation behind it is then run
SpecTerm == InitLoaded /\ [][NextTerm]_vars /\ \A p \in Procs : WF_vars(PageStep(p))

\* 205-228: the steps of handleRSVPUpdated, and eachMessage resolving
UpdatedHandler ==
  \/ C_InvalCount
  \/ C_InvalPages
  \/ C_InvalOld
  \/ C_SetUser
  \/ C_Ack

\* records being updated while the cache consumer applies the events
NextUpdate ==
  \/ \E i \in 1..MaxWrites, e \in Emails \cup {""}, n \in Names \cup {""} : Update(i, e, n)
  \/ \E e \in outbox : Publish(e)
  \/ C_Receive
  \/ UpdatedHandler
  \/ \E j \in 0..MaxWrites : Redeliver(j)

SpecUpdate == InitLoaded /\ [][NextUpdate]_vars

\* the steps of the cache consumer: the runner hands over the next message,
\* each await of the handler settles with a value or an error
ConsumerStep ==
  \/ C_Receive
  \/ Consumer
  \/ C_CounterFail
  \/ C_Caught

NextPoison ==
  \/ \E e \in Emails, n \in Names : Create(e, n)
  \/ \E i \in 1..MaxWrites : Delete(i, "deleted")
  \/ \E e \in outbox : Publish(e)
  \/ ConsumerStep
  \/ \E j \in 0..MaxWrites : Redeliver(j)

\* the consumer keeps running: kafkajs calls eachMessage for every message
\* fetched, and every Redis call of the handler settles
SpecPoison == Init /\ [][NextPoison]_vars /\ WF_vars(ConsumerStep)

\* the write requests of one client (process 1), the cache consumer applying
\* their events, and the list reads of another client (process NumProcs), all
\* interleaved
NextFrame ==
  \/ writes < MaxWrites /\ \E e \in Emails, n \in Names : W_StartCreate(1, e, n)
  \/ writes < MaxWrites /\ \E op \in ChangeOps, id \in 1..MaxWrites, e \in Emails \cup {""},
        n \in Names \cup {""} : W_StartChange(1, op, id, e, n)
  \/ WriteHandler(1)
  \/ C_Receive
  \/ Consumer
  \/ C_InvalOld
  \/ PL_Start(NumProcs, <<1, DEFAULT_PAGE_SIZE>>)
  \/ PageReader(NumProcs)
  \/ CL_Start(NumProcs)
  \/ CountReader(NumProcs)

SpecFrame == Init /\ [][NextFrame]_vars

\* processes calling incrementCount and decrementCount on one counter key
NextCalls ==
  \/ \E p \in Procs : K_StartIncr(p)
  \/ \E p \in Procs : K_Incr(p)
  \/ \E p \in Procs : K_IncrExpire(p)
  \/ \E p \in Procs : K_StartDecr(p)
  \/ \E p \in Procs : K_Decr(p)
  \/ \E p \in Procs : K_Clamp(p)
  \/ \E p \in Procs : K_DecrExpire(p)

SpecCalls == Init /\ [][NextCalls]_vars

\* producer 78: the message key is event.data.email, so events that carry
\* different e-mails lie on different partitions of rsvp-events; the consumer is
\* handed them in publish order within a partition and in any order across
\* partitions. log is the order in which eachMessage gets them.
PublishKeyed(e) ==
  /\ \A f \in outbox : f.email = e.email => e.seq <= f.seq
  /\ Publish(e)

\* creates, updates that change the e-mail and deletes, their events consumed
\* partition by partition, and a client reading the total
NextKeys ==
  \/ \E e \in Emails, n \in Names : Create(e, n)
  \/ \E i \in 1..MaxWrites, e \in Emails : Update(i, e, "")
  \/ \E i \in 1..MaxWrites : Delete(i, "deleted")
  \/ \E e \in outbox : PublishKeyed(e)
  \/ C_Receive
  \/ Consumer
  \/ C_InvalOld
  \/ CL_Start(1)
  \/ CountReader(1)

SpecKeys == Init /\ [][NextKeys]_vars

\* first pages of every page size being cached by list reads, and
\* invalidateFirstPageAllLimits called between the reads
NextLimits ==
  \/ NoCallInFlight /\ \E l \in RequestLimits :
                         S_SetPage(getPageCacheKey(1, l), fetchPage(db, 1, l))
  \/ \E p \in Procs : I_Start(p)
  \/ \E p \in Procs : I_Del(p)

SpecLimits == InitLimits /\ [][NextLimits]_vars

\* ------------------------------------------------------------ properties

PageOf(k) == fetchPage(db, k[1], k[2])
AsJson(rows) == [i \in 1..Len(rows) |-> JsonRoundTrip(rows[i])]

\* C1: concurrent getCachedPageWithLock callers that all missed the same key
\* cause exactly one fetchFunction invocation for that key, and every caller
\* that returns a value returns the fetched page.
C1_SingleFlight ==
  /\ \A k \in PageKeys : fetchCalls[k] <= 1
  /\ \A p \in Procs :
       (loc[p].kind = "value" /\ loc[p].missed) =>
          /\ fetchCalls[loc[p].key] = 1
          /\ AsJson(loc[p].val) = AsJson(PageOf(loc[p].key))

\* C5: among the acquireLock calls made on one key while no release or expiry
\* removes the entry, exactly one returns true: the entry has one creator, and
\* every other call finds the entry and returns false.
C5_OneWinner ==
  \A k \in LockKeys :
    /\ Cardinality(holder[k]) <= 1
    /\ (lock[k] # "none") <=> (holder[k] # {})

\* two callers contended for one key: one created the entry, the other was refused
C5_Witness ==
  \E p, q \in Procs :
    /\ p # q
    /\ loc[p].key = loc[q].key
    /\ p \in holder[loc[p].key]
    /\ pc[p] = "pl_fetch"
    /\ loc[q].attempt > 0

\* C6: a lock entry whose creator died still carries an expiry, so it
\* disappears after its ttl without any release.
C6_CrashedLockExpires ==
  \A k \in LockKeys :
    (lock[k] # "none" /\ \E p \in holder[k] : pc[p] = "crashed") => lock[k] = "ttl"

\* C2: the stored counter is never negative and no getAtomicCount reply is
\* negative, whatever the interleaving of the counter's operations.
C2_NonNegative ==
  /\ counter.present => counter.value >= 0
  /\ \A p \in Procs : loc[p].op = "count" => loc[p].num >= 0

\* the step that completes a reconciliation: setAtomicCount inside
\* syncCountFromDB (cl_sync) or inside the locked recompute (cl_set)
ReconcileStep(p) == pc[p] \in {"cl_sync", "cl_set"} /\ pc'[p] # pc[p]

C4_BothReturn ==
  db # <<>> =>
    /\ countFetches <= 1
    /\ \A p \in Procs :
         (pc[p] = "done" /\ loc[p].op = "count") =>
            loc[p].kind = "value" /\ loc[p].num = Len(db)

\* the consumer's handler for a created event returns to eachMessage
AppliedCreated == cpc = "ack" /\ cpc' = "idle" /\ cev.type = "created"

NextReadAfter(p, types) ==
  /\ pc[p] = "done"
  /\ loc[p].op = "page"
  /\ loc[p].ev.type \in types
  /\ loc[p].ev.seq = loc[p].w0

DeleteTypes == {"deleted", "cancelled"}

\* the consumer's handler for a deleted or cancelled event returns to eachMessage
AppliedDeleted == cpc = "ack" /\ cpc' = "idle" /\ cev.type \in DeleteTypes

C10_FailedNotAcked ==
  \A i \in failed : offset < i

\* C11: publish is invoked only for a mutation that committed: a handler that
\* stands at its publish has changed a row, and every event on the log belongs
\* to a committed mutation.
C11_PublishAfterCommit ==
  /\ \A p \in Procs : wpc[p] = "w_publish" => wloc[p].committed
  /\ \A i \in 1..Len(log) : log[i].seq > 0

\* C12: a write whose mutation committed and whose publish failed is not answered
\* as a failed write.
C12_PublishFailureIsWarning ==
  \A p \in Procs :
    (wpc[p] = "done" /\ wloc[p].committed /\ wloc[p].pubFailed) => wloc[p].status < 500

\* C13: once the handler of a committed mutation has answered, the log holds
\* exactly one event of that mutation.
C13_ExactlyOneEvent ==
  \A p \in Procs :
    (wpc[p] = "done" /\ wloc[p].committed) =>
       Cardinality({i \in 1..Len(log) : log[i].seq = wloc[p].ev.seq}) = 1

\* C14: the events of one record stand on the log, which the consumer reads front
\* to back, in the order in which their mutations committed.
C14_CommitOrder ==
  \A i, j \in 1..Len(log) :
    (i < j /\ log[i].rsvpId = log[j].rsvpId /\ log[i].seq > 0 /\ log[j].seq > 0) =>
       log[i].seq < log[j].seq

\* C15: a page read that found Redis unreachable returns the page last stored
\* under its key, expired or not, whenever one was ever stored.
C15_LastKnownOnOutage ==
  \A p \in Procs :
    (pc[p] = "done" /\ loc[p].op = "page" /\ loc[p].down /\ written[loc[p].key].ever) =>
       loc[p].kind = "value"

\* C16: a list read that found Redis unreachable still succeeds, with the page
\* and the total as the source of truth has them.
C16_DegradesToSource ==
  \A p \in Procs :
    (pc[p] = "done" /\ loc[p].down) =>
       /\ loc[p].kind = "value"
       /\ loc[p].op = "page" => AsJson(loc[p].val) = AsJson(PageOf(loc[p].key))
       /\ loc[p].op = "count" => loc[p].num = Len(db)

\* the getCachedPage call of p returns
GetStep(p) == pc[p] = "s_get" /\ pc'[p] = "done"

\* C17 as stated: a getCachedPage made while the entry of a setCachedPage(records)
\* is in the store returns records itself.
C17_Original ==
  [][\A p \in Procs : (GetStep(p) /\ written[loc[p].key].live) =>
        loc'[p].kind = "value" /\ loc'[p].val = written[loc[p].key].rows]_vars

\* a record reduced to the four public fields, created_at as its ISO string
PublicJson(r) ==
  [id |-> r.id, name |-> r.name, email |-> r.email, created_at |-> Iso(r.created_at[2])]

\* C17 (amended): the call returns, in the same order and number, the records
\* reduced to id, name, email and created_at, with created_at as an ISO string.
C17_RoundTripIsPublicJson ==
  [][\A p \in Procs : (GetStep(p) /\ written[loc[p].key].live) =>
        /\ loc'[p].kind = "value"
        /\ loc'[p].val = [i \in 1..Len(written[loc[p].key].rows) |->
                            PublicJson(written[loc[p].key].rows[i])]]_vars

\* a caller got back a two-record page that was written as full table rows
C17_Witness ==
  \E p \in Procs :
    /\ pc[p] = "done"
    /\ loc[p].op = "get"
    /\ loc[p].kind = "value"
    /\ written[loc[p].key].live
    /\ Len(written[loc[p].key].rows) = 2
    /\ "token" \in DOMAIN written[loc[p].key].rows[1]
    /\ Len(loc[p].val) = 2
    /\ loc[p].val[1].id = written[loc[p].key].rows[1].id

PublicFields == {"id", "name", "email", "created_at"}

\* C18: every record in the page cache and in the user cache has only the
\* fields id, name, email and created_at.
C18_OnlyWhitelistedFields ==
  /\ \A k \in PageKeys : \A i \in 1..Len(pageCache[k].data) :
        DOMAIN pageCache[k].data[i] \subseteq PublicFields
  /\ \A e \in Emails : DOMAIN userCache[e].rec \subseteq PublicFields

\* C19: whenever no counter mutation stands between its two Redis commands, a
\* counter key that exists carries an expiry.
C19_MutationRenewsExpiry ==
  (cpc \notin {"incr_expire", "decr_clamp", "decr_expire"}) =>
     (counter.present => counter.ttl)

\* position of id x in the id sequence s (0 when absent)
RankIn(s, x) == IF x \in Range(s) THEN CHOOSE i \in 1..Len(s) : s[i] = x ELSE 0

\* C20: when nothing that existed at the first fetch was removed before the
\* second, pages p and p + 1 share no record, and every record that existed at
\* the first fetch, stood at or after page p then and stands within the first
\* p + 1 pages at the second fetch is on one of the two pages.
C20_NoOverlapNoGap ==
  (scan.step = 2 /\ Range(scan.before) \subseteq Range(scan.after)) =>
     /\ Range(Ids(scan.first)) \cap Range(Ids(scan.second)) = {}
     /\ \A r \in 1..Len(scan.before) :
          (/\ r > (scan.page - 1) * scan.limit
           /\ RankIn(scan.after, scan.before[r]) <= (scan.page + 1) * scan.limit) =>
             scan.before[r] \in Range(Ids(scan.first)) \cup Range(Ids(scan.second))

\* C21: every 200 response of getAllRSVPs carries page >= 1, limit in 1..100 and
\* total >= 0, its totalPages is the least n with n * limit >= total (the
\* ceiling of total / limit), hasNext is true exactly when page * limit < total
\* and hasPrev exactly when page > 1
C21_PaginationArithmetic ==
  resp.status = 200 =>
    /\ resp.page >= 1 /\ resp.limit \in 1..100 /\ resp.total >= 0
    /\ resp.totalPages * resp.limit >= resp.total
    /\ resp.totalPages = 0 \/ (resp.totalPages - 1) * resp.limit < resp.total
    /\ resp.totalPages >= 0
    /\ resp.hasNext <=> (resp.page * resp.limit < resp.total)
    /\ resp.hasPrev <=> (resp.page > 1)

\* the response for a page before the last of several: a next page, none before
C21_Witness ==
  /\ resp.status = 200 /\ resp.total = 2 /\ resp.limit = 1 /\ resp.page = 1
  /\ resp.hasNext /\ ~resp.hasPrev /\ resp.totalPages = 2

\* a step in which updateRSVP or deleteRSVP of p runs its UPDATE / DELETE statement
ChangeStep(p) ==
  /\ wloc[p].op \in {"update", "delete"}
  /\ wpc[p] \in {"w_update", "w_delete"}
  /\ wpc'[p] # wpc[p]

\* the record the request names is in the table with the e-mail of its token
OwnRecord(p) ==
  \E i \in RowsWithId(db, wloc[p].id) : db[i].email = TokenEmail(wloc[p].id)

\* C22: updateRSVP and deleteRSVP change or remove a record only when the
\* token's e-mail equals the record's stored e-mail; otherwise the table is left
\* unchanged, the answer is 404 or 403 and no event is published
C22_OnlyOwnRecord ==
  [][\A p \in Procs : ChangeStep(p) =>
        /\ db' # db => OwnRecord(p)
        /\ ~OwnRecord(p) => /\ db' = db
                            /\ wpc'[p] = "done"
                            /\ wloc'[p].status \in {403, 404}]_vars

\* the INSERT of a createRSVP whose email some record already holds
DuplicateInsert(p) ==
  /\ wpc[p] = "w_insert"
  /\ wpc'[p] # wpc[p]
  /\ \E i \in 1..Len(db) : db[i].email = wloc[p].email

UniqueEmails == \A i, j \in 1..Len(db) : db[i].email = db[j].email => i = j

\* C23: createRSVP with an email that is already registered answers 409, adds no
\* record and publishes no event; the table never holds two records with one
\* email
C23_DuplicateRejected ==
  /\ []UniqueEmails
  /\ [][\A p \in Procs : DuplicateInsert(p) =>
          /\ wloc'[p].status = 409
          /\ wpc'[p] = "done"
          /\ db' = db
          /\ log' = log]_vars

\* a createRSVP was answered 409 while the table holds records
C23_Witness ==
  \E p \in Procs : /\ wloc[p].op = "create" /\ wloc[p].status = 409 /\ wpc[p] = "done"
                   /\ ~wloc[p].committed /\ db # <<>>

Contains(s, pat) ==
  \E i \in 1..(Len(s) - Len(pat) + 1) : SubSeq(s, i, i + Len(pat) - 1) = pat

\* C24: the result of sanitizeName and of sanitizeEmail holds none of the
\* characters < > " ' & and neither 'javascript:' nor 'data:' as a substring
C24_NoDangerousOutput ==
  san.fn # "none" =>
    /\ \A i \in 1..Len(san.output) : san.output[i] \notin DANGEROUS_CHARS
    /\ ~Contains(san.output, JAVASCRIPT_PROTOCOL)
    /\ ~Contains(san.output, DATA_PROTOCOL)

\* the processes between the doubleCheck miss and the return of setCachedPage
\* of getCachedPageWithLock on page key k (245-246)
InFetchSection(k) == {p \in Procs : loc[p].key = k /\ pc[p] \in {"pl_fetch", "pl_set"}}

\* C25: at every moment at most one process executes the fetch-and-populate
\* section of getCachedPageWithLock for one (page, limit) key, also when a fetch
\* outlasts the lock's ttl
C25_OneInFetchSection == \A k \in PageKeys : Cardinality(InFetchSection(k)) <= 1

\* the step in which releaseLock of p's getCachedPageWithLock sends its DEL
ReleaseStep(p) == pc[p] = "pl_release" /\ pc'[p] = "done"

\* C26: a lock entry is deleted only by the process whose acquireLock created
\* it: a releaseLock never removes an entry that another caller holds
C26_ReleaseOnlyOwnEntry ==
  [][\A p \in Procs : ReleaseStep(p) =>
        holder[getPageLockKey(loc[p].key[1], loc[p].key[2])] \subseteq {p}]_vars

\* p has taken a step of its call
Stepped(p) == pc'[p] # pc[p] \/ loc'[p] # loc[p]

\* every releaseLock call of a request follows an acquireLock of its own that
\* returned true, and a request that has returned or thrown has released once
\* if it acquired and never if it did not
ReleasePairsWithAcquire ==
  \A p \in Procs :
    /\ loc[p].rel > 0 => loc[p].won
    /\ loc[p].rel <= 1
    /\ pc[p] = "done" => (loc[p].rel = 1 <=> loc[p].won)

\* C27: a call of getCachedPageWithLock or getCachedCountWithLock invokes
\* releaseLock only if its own acquireLock returned true, and then before it
\* returns or throws on every path (double-check hit, fetch, fetch error); the
\* steps of a caller whose acquireLock has not returned true, up to the
\* exhausted retries, delete no lock and change no cache entry
C27_ReleaseIffAcquired ==
  /\ []ReleasePairsWithAcquire
  /\ [][\A p \in Procs :
          (Stepped(p) /\ ~loc'[p].won) =>
             /\ loc'[p].rel = 0
             /\ \A k \in LockKeys : lock[k] # "none" => lock'[k] # "none"
             /\ UNCHANGED <<pageCache, counter, userCache>>]_vars

\* one caller threw a fetch error after releasing the lock it had acquired, the
\* other threw after exhausting its retries and released nothing
C27_Witness ==
  \E p, q \in Procs :
    /\ pc[p] = "done" /\ loc[p].op = "page" /\ loc[p].kind = "error"
    /\ loc[p].won /\ loc[p].rel = 1
    /\ pc[q] = "done" /\ loc[q].op = "page" /\ loc[q].kind = "error"
    /\ ~loc[q].won /\ loc[q].rel = 0 /\ loc[q].key = loc[p].key

\* C28: every call of getCachedPageWithLock terminates when its fetch function
\* does: it counts at most MAX_RETRY_ATTEMPTS refused acquireLock calls, and
\* then returns a cached value or throws, whoever holds the lock and however long
C28_CallsTerminate ==
  /\ [](\A p \in Procs : /\ loc[p].attempt <= MAX_RETRY_ATTEMPTS
                         /\ loc[p].attempt = MAX_RETRY_ATTEMPTS => pc[p] = "pl_stale")
  /\ \A p \in Procs : (pc[p] \notin {"idle", "done"}) ~> (pc[p] = "done")

\* a caller has been refused MAX_RETRY_ATTEMPTS times while another caller is
\* inside the fetch
C28_Witness ==
  \E p, q \in Procs :
    /\ pc[q] = "pl_stale" /\ loc[q].attempt = MAX_RETRY_ATTEMPTS
    /\ pc[p] = "pl_fetch" /\ loc[p].key = loc[q].key

\* the consumer is inside handleRSVPUpdated
ApplyingUpdated == cev.type = "updated" /\ cpc # "idle"

\* the event says the e-mail changed
EmailChanged(e) == e.oldEmail # "" /\ e.oldEmail # e.email

\* the Key-Status keys an updated event may touch
KeysOf(e) == {getUserRSVPCacheKey(e.email)} \cup
             (IF EmailChanged(e) THEN {getUserRSVPCacheKey(e.oldEmail)} ELSE {})

\* C29: when the consumer has applied an updated event, the Key-Status entry of
\* the event's e-mail is present, and the entry of its old e-mail is absent if
\* the e-mail changed; while it applies the event no entry of any other e-mail
\* is removed or set
C29_UpdatedMovesKeyStatus ==
  /\ []((cpc = "ack" /\ cev.type = "updated") =>
          /\ getUserRSVP(userCache, cev.email).present
          /\ getUserRSVP(userCache, cev.email).rec.id = cev.rsvpId
          /\ EmailChanged(cev) => ~getUserRSVP(userCache, cev.oldEmail).present)
  /\ [][ApplyingUpdated =>
          \A e \in Emails \ KeysOf(cev) : userCache'[e] = userCache[e]]_vars

\* an update that changed the e-mail of a record whose status was cached has
\* been applied: the old key is gone, the new one holds the record
C29_Witness ==
  /\ cpc = "ack" /\ cev.type = "updated" /\ EmailChanged(cev)
  /\ hist[offset + 1].n = 0 /\ offset = 1
  /\ ~getUserRSVP(userCache, cev.oldEmail).present
  /\ getUserRSVP(userCache, cev.email).present
  /\ getUserRSVP(userCache, cev.email).rec.id = cev.rsvpId

\* C30: an event whose application fails, however often it is delivered, does
\* not stop the cache consumer: every event behind it on the topic is
\* eventually consumed
C30_PoisonDoesNotBlock ==
  \A i \in 1..MaxWrites, j \in 1..MaxWrites :
    (i < j) => ((i \in failed /\ Len(log) >= j) ~> (offset >= j))

\* the first message failed both times it was delivered, and the message behind
\* it has been consumed
C30_Witness ==
  /\ 1 \in failed /\ redelivered = MaxRedeliver
  /\ offset = 2 /\ cpc = "idle" /\ hist[1].n = 0 /\ hist[2].n > 0

\* a step of a write handler: one of its awaits settles, or the request enters
WriteStep == wpc' # wpc \/ wloc' # wloc

CountReturns(p) ==
  /\ pc[p] # "done"
  /\ pc'[p] = "done"
  /\ loc'[p].op = "count"
  /\ loc'[p].kind = "value"

\* committed mutations whose event the consumer has not finished applying
InFlight == writes - offset

Dist(a, b) == IF a < b THEN b - a ELSE a - b

\* C32: whenever getCachedCountWithLock returns a total, the total is no further
\* from the number of rows in the table than the number of committed mutations
\* whose events the cache consumer has yet to finish applying.
C32_CountWithinInFlight ==
  [][\A p \in Procs : CountReturns(p) => Dist(loc'[p].num, CountAll(db')) <= InFlight']_vars

\* p stands between the setNX and the expire of an acquireLock call
InsideAcquire(p) == pc[p] \in {"pl_expire", "cl_expire"}

\* C33: a caller none of whose acquireLock calls returned true, and who is not
\* inside one, has left no lock entry of its making in the store: an
\* acquireLock that ended on an error removed what it had created.
C33_FailedAcquireLeavesNoEntry ==
  \A p \in Procs :
    (~loc[p].won /\ ~InsideAcquire(p)) =>
       \A k \in LockKeys : ~(p \in holder[k] /\ lock[k] # "none")

\* C34: when the consumer has applied the updated event of the latest mutation,
\* the Key-Status entry of the record's e-mail is the record as the table holds
\* it: its id, name, email and created_at.
C34_UpdatedEntryIsRecord ==
  \A i \in 1..Len(db) :
    (cpc = "ack" /\ cev.type = "updated" /\ cev.seq = writes /\ db[i].id = cev.rsvpId) =>
       getUserRSVP(userCache, db[i].email) = [present |-> TRUE, rec |-> PublicJson(db[i])]

\* every committed mutation has its event on the topic, and the consumer has
\* finished applying every event
AllApplied ==
  /\ cpc = "idle"
  /\ offset = Len(log)
  /\ outbox = {}
  /\ \A p \in Procs : wpc[p] # "w_publish"

\* C35: once the consumer has finished applying the events of all committed
\* mutations, every page in the cache is the page as the table has it now: no
\* entry holds rows that were fetched before one of the mutations committed.
C35_NoPageOlderThanApplied ==
  AllApplied =>
    \A k \in PageKeys :
      pageHit(pageCache, k) => AsJson(getCachedPage(pageCache, k)) = AsJson(PageOf(k))

\* p's getCachedCountWithLock call goes on to the lock after its first read of
\* the counter, or on to the fetch function after its read under the lock
TreatsAsMiss(p) ==
  \/ pc[p] = "cl_get" /\ pc'[p] = "cl_setnx"
  \/ pc[p] = "cl_dbl" /\ pc'[p] = "cl_query"

\* C36: getCachedCountWithLock goes for the lock, and for the fetch function,
\* only when the read of the counter before it found the key absent; a key that
\* is present, whatever its value, is returned.
C36_FetchOnlyWhenAbsent ==
  [][\A p \in Procs : TreatsAsMiss(p) => ~counter.present]_vars

\* the values a counter at v can end at when a increments and d decrements that
\* clamp at zero are applied one after the other, in any order
RECURSIVE SequentialResults(_, _, _)
SequentialResults(v, a, d) ==
  IF a = 0 /\ d = 0 THEN {v}
  ELSE (IF a > 0 THEN SequentialResults(v + 1, a - 1, d) ELSE {})
       \cup (IF d > 0 THEN SequentialResults(IF v > 0 THEN v - 1 ELSE 0, a, d - 1) ELSE {})

\* C37: when all the incrementCount and decrementCount calls made have returned,
\* the counter holds a value that the same calls give in some sequential order.
C37_CounterLinearizable ==
  (\A p \in Procs : pc[p] \in {"idle", "done"}) =>
     getAtomicCount(counter).n \in SequentialResults(0, calls.incr, calls.decr)

\* C38: once every event is applied and no write is in flight, an e-mail with an
\* entry in the Key-Status cache is the e-mail of a record in the table.
C38_NoEntryWithoutRecord ==
  AllApplied =>
    \A e \in Emails :
      getUserRSVP(userCache, e).present => \E i \in 1..Len(db) : db[i].email = e

\* C39: when a call of invalidateFirstPageAllLimits completes, the page cache
\* holds no first page, whatever the page size.
C39_NoFirstPageLeft ==
  [][\A p \in Procs :
       (pc[p] = "i_del" /\ pc'[p] = "done") =>
          \A l \in RequestLimits : ~pageHit(pageCache', getPageCacheKey(1, l))]_vars

====
